---- MODULE Spec2Model ----
(***************************************************************************)
(* Model of the iowarp-hooks installer: the template processor, the hook    *)
(* installer (install_hook_set / uninstall_hook_set over settings.json and  *)
(* .hook_metadata.json) and the interactive installation flow.              *)
(*                                                                          *)
(* Text is a sequence of one-character strings, so that substitution is     *)
(* computed rather than assumed.  A JSON object is a record; a store file   *)
(* is [exists, valid, data].                                                *)
(***************************************************************************)
EXTENDS Integers, Sequences, FiniteSets, TLC

VARIABLES
    settings,   \* settings.json of the target directory
    metadata,   \* .hook_metadata.json of the target directory
    fs,         \* the other files and directories of the target directory
    hist,       \* operations performed so far, each with the state before it
    flow,       \* state of one run of InteractiveInstaller.run
    procs,      \* position and local variables of concurrent install commands
    home,       \* the user-home-scoped target directory: settings, metadata, fs
    unit        \* one library call at a time: its arguments and what it returned

vars == <<settings, metadata, fs, hist, flow, procs, home, unit>>

----------------------------------------------------------------------------
(* Bounds *)

MaxOps == 3          \* installer operations per behaviour
MaxActions == 2      \* actions declared by one installation path
MaxReprompts == 1    \* invalid answers to the path selection prompt
MaxTextLen == 4      \* symbols of a template text given to process_string

----------------------------------------------------------------------------
(* templates.py *)

Placeholder(key) == <<"{">> \o key \o <<"}">>

\* str.replace(old, new): leftmost non-overlapping occurrences, no rescan
RECURSIVE replace(_, _, _)
replace(s, old, new) ==
    IF Len(s) < Len(old) THEN s
    ELSE IF SubSeq(s, 1, Len(old)) = old
         THEN new \o replace(SubSeq(s, Len(old) + 1, Len(s)), old, new)
         ELSE <<Head(s)>> \o replace(Tail(s), old, new)

\* first pass of process_string: one replace per variable, in dict order
RECURSIVE literal_pass(_, _)
literal_pass(content, variables) ==
    IF variables = <<>> THEN content
    ELSE literal_pass(replace(content, Placeholder(variables[1][1]), variables[1][2]),
                      Tail(variables))

HasVar(variables, key) == \E i \in 1..Len(variables) : variables[i][1] = key

VarValue(variables, key) ==
    variables[CHOOSE i \in 1..Len(variables) : variables[i][1] = key][2]

RECURSIVE StripLeft(_)
StripLeft(s) == IF s # <<>> /\ Head(s) = " " THEN StripLeft(Tail(s)) ELSE s

RECURSIVE StripRight(_)
StripRight(s) ==
    IF s # <<>> /\ s[Len(s)] = " " THEN StripRight(SubSeq(s, 1, Len(s) - 1)) ELSE s

Strip(s) == StripRight(StripLeft(s))

IsName(s) == s # <<>> /\ \A i \in 1..Len(s) : s[i] \notin {"{", "}", " "}

\* position of the first "}}" at or after i, 0 when there is none
FindClose(s, i) ==
    LET hits == {j \in i..(Len(s) - 1) : s[j] = "}" /\ s[j + 1] = "}"}
    IN  IF hits = {} THEN 0 ELSE CHOOSE j \in hits : \A k \in hits : j <= k

RenderError == [ok |-> FALSE, out |-> <<>>]

\* second pass of process_string: Template(content).render(**variables),
\* for templates made of text and {{ name }} expressions.  An undefined
\* name renders as the empty string; an unclosed or non-name expression is
\* a template syntax error.
RECURSIVE jinja_render(_, _)
jinja_render(s, variables) ==
    IF Len(s) < 2 THEN [ok |-> TRUE, out |-> s]
    ELSE IF s[1] = "{" /\ s[2] = "{"
         THEN LET j == FindClose(s, 3)
              IN  IF j = 0 THEN RenderError
                  ELSE LET expr == Strip(SubSeq(s, 3, j - 1))
                           rest == jinja_render(SubSeq(s, j + 2, Len(s)), variables)
                           val  == IF HasVar(variables, expr)
                                   THEN VarValue(variables, expr) ELSE <<>>
                       IN  IF ~IsName(expr) \/ ~rest.ok THEN RenderError
                           ELSE [ok |-> TRUE, out |-> val \o rest.out]
         ELSE LET rest == jinja_render(Tail(s), variables)
              IN  IF rest.ok THEN [ok |-> TRUE, out |-> <<Head(s)>> \o rest.out]
                  ELSE RenderError

\* variant: the engine renders first, the literal placeholders come second
process_string_engine_first(content, variables) ==
    LET rendered == jinja_render(content, variables)
    IN  IF rendered.ok
        THEN [ok |-> TRUE, out |-> literal_pass(rendered.out, variables)]
        ELSE RenderError

process_string(content, variables) ==
    jinja_render(literal_pass(content, variables), variables)

\* process_data over a hook entry: a mapping whose values are strings
process_data(data, variables) ==
    LET r == [k \in DOMAIN data |-> process_string(data[k], variables)]
    IN  [ok  |-> \A k \in DOMAIN data : r[k].ok,
         out |-> [k \in DOMAIN data |-> r[k].out]]

----------------------------------------------------------------------------
(* Hook sets available to install: config.yaml and the hooks/ subtree *)

HookSetNames == {"setA", "setB", "setC"}

EventTypes == {"PreToolUse", "Stop", "Notification"}

KeyP == <<"p">>

\* values the operator may give for the input p
InputValues == {<<"x">>, <<"y", "z">>}

InputChoices == {<< <<KeyP, v>> >> : v \in InputValues}

\* hooks: event type -> entry template, in declaration order;
\* files: the hooks/ subtree as (relative path, content), in walk order
HookSetConfig(name) ==
    IF name = "setA" THEN
        [name |-> "setA", version |-> "1", description |-> "A",
         hooks |-> << [type |-> "PreToolUse",
                       entry |-> [matcher |-> <<>>,
                                  command |-> <<"a", " ", "{", "p", "}">>]],
                      [type |-> "Stop",
                       entry |-> [matcher |-> <<>>,
                                  command |-> <<"a", "{", "{", " ", "p", " ", "}", "}">>]] >>,
         files |-> << [rel |-> <<"send.py">>, content |-> <<"A", "{", "p", "}">>],
                      [rel |-> <<"lib", "util.txt">>, content |-> <<"{", "p", "}">>] >>]
    ELSE IF name = "setB" THEN
        [name |-> "setB", version |-> "2", description |-> "B",
         hooks |-> << [type |-> "PreToolUse",
                       entry |-> [matcher |-> <<"*">>,
                                  command |-> <<"b", " ", "{", "p", "}">>]] >>,
         files |-> << [rel |-> <<"send.py">>, content |-> <<"B", "{", "p", "}">>],
                      [rel |-> <<"x", "y", "z.txt">>, content |-> <<"z">>] >>]
    ELSE IF name = "setD" THEN
        [name |-> "setD", version |-> "5", description |-> "D",
         hooks |-> << [type |-> "Stop",
                       entry |-> [matcher |-> <<>>,
                                  command |-> <<"d", " ", "{", "p", "}">>]] >>,
         files |-> << [rel |-> <<"a.txt">>, content |-> <<"a">>],
                      [rel |-> <<"send.py">>, content |-> <<"D">>] >>]
    ELSE IF name = "observability_viz" THEN
        [name |-> "observability_viz", version |-> "4", description |-> "V",
         hooks |-> << [type |-> "Stop",
                       entry |-> [matcher |-> <<>>,
                                  command |-> <<"v", " ", "{", "influxdb_url", "}",
                                                " ", "{", "token", "}">>]] >>,
         files |-> << [rel |-> <<"send.py">>,
                       content |-> <<"V", "{", "influxdb_token", "}">>] >>]
    ELSE
        [name |-> "setC", version |-> "3", description |-> "C",
         hooks |-> << >>,
         files |-> << [rel |-> <<"c.sh">>, content |-> <<"c">>] >>]

\* open() and yaml.safe_load of the hook set's config.yaml succeed
ConfigLoads(name) == name # "broken"

DeclaredTypes(name) ==
    {HookSetConfig(name).hooks[i].type : i \in 1..Len(HookSetConfig(name).hooks)}

DeclaredEntry(name, T) ==
    LET hs == HookSetConfig(name).hooks
    IN  hs[CHOOSE i \in 1..Len(hs) : hs[i].type = T].entry

\* hook_file.suffix == ".py"
IsPython(rel) == rel[Len(rel)] \in {"send.py"}

----------------------------------------------------------------------------
(* The two JSON stores and the file tree of the target directory *)

EmptyMap == [x \in {} |-> <<>>]

Restrict(f, D) == [x \in D |-> f[x]]

EmptySettingsData == [hasHooks |-> FALSE, hooks |-> EmptyMap, other |-> EmptyMap]

EmptyMetadataData == [hasKey |-> FALSE, sets |-> EmptyMap]

\* fmt: "indent2" is the layout json.dump(..., indent=2) writes; "user" is
\* any other layout of the same JSON value
AbsentSettings ==
    [exists |-> FALSE, valid |-> TRUE, fmt |-> "indent2", data |-> EmptySettingsData]

AbsentMetadata ==
    [exists |-> FALSE, valid |-> TRUE, fmt |-> "indent2", data |-> EmptyMetadataData]

SettingsFile(fmt, data) == [exists |-> TRUE, valid |-> TRUE, fmt |-> fmt, data |-> data]

MetadataFile(fmt, data) == [exists |-> TRUE, valid |-> TRUE, fmt |-> fmt, data |-> data]

\* a file that exists but is not valid JSON
MalformedSettings ==
    [exists |-> TRUE, valid |-> FALSE, fmt |-> "user", data |-> EmptySettingsData]

MalformedMetadata ==
    [exists |-> TRUE, valid |-> FALSE, fmt |-> "user", data |-> EmptyMetadataData]

\* paths are relative to the target directory; <<>> is the directory itself
NoTarget == [files |-> EmptyMap, dirs |-> {}]

BareTarget == [files |-> EmptyMap, dirs |-> {<<>>}]

UserTarget ==
    [files |-> (<<"hooks", "mine.sh">> :> <<"m">>),
     dirs  |-> {<<>>, <<"hooks">>, <<"hooks", "keep">>}]

Ancestors(path) == {SubSeq(path, 1, k) : k \in 0..(Len(path) - 1)}

IsUnder(path, dir) ==
    Len(path) > Len(dir) /\ SubSeq(path, 1, Len(dir)) = dir

HooksDir == <<"hooks">>

----------------------------------------------------------------------------
(* installer.py: HookInstaller *)

\* variant: any target name is resolved like the known one
get_target_directory_any_target(target, install_type) ==
    [ok |-> TRUE, dir |-> IF install_type = "global" THEN "home" ELSE "cwd"]

\* get_target_directory: "home" and "cwd" name the two locations
get_target_directory(target, install_type) ==
    IF target = "claude"
    THEN [ok |-> TRUE, dir |-> IF install_type = "global" THEN "home" ELSE "cwd"]
    ELSE [ok |-> FALSE, dir |-> "none"]

\* variant: every file is rendered, whatever its suffix
RECURSIVE copy_rendering_all(_, _, _, _)
copy_rendering_all(tree, files, inputs, installed) ==
    IF files = <<>> THEN [ok |-> TRUE, fs |-> tree, installed_files |-> installed]
    ELSE LET f        == Head(files)
             path     == HooksDir \o f.rel
             made     == [tree EXCEPT !.dirs = @ \cup Ancestors(path)]
             rendered == jinja_render(literal_pass(f.content, inputs), inputs)
             listed   == Append(installed, path)
         IN  IF rendered.ok
             THEN copy_rendering_all(
                      [made EXCEPT !.files = (path :> rendered.out) @@ @],
                      Tail(files), inputs, listed)
             ELSE [ok |-> FALSE, fs |-> made, installed_files |-> listed]

\* lines 49-71: write the hooks/ subtree of the hook set below the target's
\* hooks directory; .py files are rendered, the others copied.  A rendering
\* error stops the walk and leaves what was written so far.
RECURSIVE copy_hook_files(_, _, _, _)
copy_hook_files(tree, files, inputs, installed) ==
    IF files = <<>> THEN [ok |-> TRUE, fs |-> tree, installed_files |-> installed]
    ELSE LET f        == Head(files)
             path     == HooksDir \o f.rel
             made     == [tree EXCEPT !.dirs = @ \cup Ancestors(path)]
             rendered == process_string(f.content, inputs)
             listed   == Append(installed, path)
         IN  IF IsPython(f.rel)
             THEN IF rendered.ok
                  THEN copy_hook_files(
                           [made EXCEPT !.files = (path :> rendered.out) @@ @],
                           Tail(files), inputs, listed)
                  ELSE [ok |-> FALSE, fs |-> made, installed_files |-> listed]
             ELSE copy_hook_files(
                      [made EXCEPT !.files = (path :> f.content) @@ @],
                      Tail(files), inputs, listed)

\* variant: the event type's list is replaced by the new entry
RECURSIVE merge_overwriting(_, _, _, _)
merge_overwriting(hooks, hook_set_entries, hook_configs, inputs) ==
    IF hook_configs = <<>>
    THEN [ok |-> TRUE, hooks |-> hooks, hook_entries |-> hook_set_entries]
    ELSE LET hook_type        == Head(hook_configs).type
             processed_config == process_data(Head(hook_configs).entry, inputs)
         IN  IF ~processed_config.ok
             THEN [ok |-> FALSE, hooks |-> hooks, hook_entries |-> hook_set_entries]
             ELSE merge_overwriting(
                      (hook_type :> <<processed_config.out>>) @@ hooks,
                      (hook_type :> 0) @@ hook_set_entries,
                      Tail(hook_configs), inputs)

\* variant: the index is taken after the append
RECURSIVE merge_index_after_append(_, _, _, _)
merge_index_after_append(hooks, hook_set_entries, hook_configs, inputs) ==
    IF hook_configs = <<>>
    THEN [ok |-> TRUE, hooks |-> hooks, hook_entries |-> hook_set_entries]
    ELSE LET hook_type        == Head(hook_configs).type
             processed_config == process_data(Head(hook_configs).entry, inputs)
             present          == IF hook_type \in DOMAIN hooks
                                 THEN hooks ELSE (hook_type :> <<>>) @@ hooks
             appended         == [present EXCEPT ![hook_type] =
                                     Append(@, processed_config.out)]
         IN  IF ~processed_config.ok
             THEN [ok |-> FALSE, hooks |-> hooks, hook_entries |-> hook_set_entries]
             ELSE merge_index_after_append(
                      appended,
                      (hook_type :> Len(appended[hook_type])) @@ hook_set_entries,
                      Tail(hook_configs), inputs)

\* lines 106-119: append each rendered entry to its event type's list and
\* record the index it was appended at
RECURSIVE merge_hook_entries(_, _, _, _)
merge_hook_entries(hooks, hook_set_entries, hook_configs, inputs) ==
    IF hook_configs = <<>>
    THEN [ok |-> TRUE, hooks |-> hooks, hook_entries |-> hook_set_entries]
    ELSE LET hook_type        == Head(hook_configs).type
             processed_config == process_data(Head(hook_configs).entry, inputs)
             present          == IF hook_type \in DOMAIN hooks
                                 THEN hooks ELSE (hook_type :> <<>>) @@ hooks
             entry_index      == Len(present[hook_type])
         IN  IF ~processed_config.ok
             THEN [ok |-> FALSE, hooks |-> hooks, hook_entries |-> hook_set_entries]
             ELSE merge_hook_entries(
                      [present EXCEPT ![hook_type] = Append(@, processed_config.out)],
                      (hook_type :> entry_index) @@ hook_set_entries,
                      Tail(hook_configs), inputs)

HookSetRecord(config, inputs, installed_files, hook_entries) ==
    [installed_files |-> installed_files,
     hook_entries    |-> hook_entries,
     inputs          |-> inputs,
     config          |-> [name |-> config.name, version |-> config.version,
                          description |-> config.description]]

Outcome(st, result) ==
    [settings |-> st.settings, metadata |-> st.metadata, fs |-> st.fs, result |-> result]

\* variant: the installed-set mapping is kept inside settings.json
written_settings_with_bookkeeping(loaded, hooks) ==
    SettingsFile("indent2",
        [loaded EXCEPT !.hooks = hooks,
                       !.other = ("installed_hook_sets" :> "sets") @@ @])

\* lines 133-135: json.dump of the merged settings
written_settings(loaded, hooks) ==
    SettingsFile("indent2", [loaded EXCEPT !.hooks = hooks])

\* variant: a record already stored under the name is kept
written_metadata_keeping_first(meta, hook_set_name, record) ==
    MetadataFile("indent2", [meta EXCEPT !.sets = @ @@ (hook_set_name :> record)])

\* lines 122-131 and 137-139: store the record, json.dump the metadata
written_metadata(meta, hook_set_name, record) ==
    MetadataFile("indent2", [meta EXCEPT !.sets = (hook_set_name :> record) @@ @])

\* _update_settings: read both stores, merge, write both stores
\* variant: settings.json is written before the entries are rendered
update_settings_writing_early(st, config, inputs, hook_set_name, installed_files) ==
    LET loaded   == IF st.settings.exists THEN st.settings.data ELSE EmptySettingsData
        meta     == IF st.metadata.exists THEN st.metadata.data
                    ELSE [hasKey |-> TRUE, sets |-> EmptyMap]
        withHook == IF loaded.hasHooks THEN loaded
                    ELSE [loaded EXCEPT !.hasHooks = TRUE, !.hooks = EmptyMap]
        merged   == merge_hook_entries(withHook.hooks, EmptyMap, config.hooks, inputs)
        record   == HookSetRecord(config, inputs, installed_files, merged.hook_entries)
        early    == [st EXCEPT !.settings = written_settings(withHook, withHook.hooks)]
    IN  IF st.settings.exists /\ ~st.settings.valid THEN Outcome(st, "ParseError")
        ELSE IF st.metadata.exists /\ ~st.metadata.valid THEN Outcome(early, "ParseError")
        ELSE IF ~merged.ok THEN Outcome(early, "TemplateError")
        ELSE IF ~meta.hasKey THEN Outcome(early, "KeyError")
        ELSE [settings |-> written_settings(withHook, merged.hooks),
              metadata |-> written_metadata(meta, hook_set_name, record),
              fs       |-> st.fs,
              result   |-> "ok"]

update_settings(st, config, inputs, hook_set_name, installed_files) ==
    LET loaded   == IF st.settings.exists THEN st.settings.data ELSE EmptySettingsData
        meta     == IF st.metadata.exists THEN st.metadata.data
                    ELSE [hasKey |-> TRUE, sets |-> EmptyMap]
        withHook == IF loaded.hasHooks THEN loaded
                    ELSE [loaded EXCEPT !.hasHooks = TRUE, !.hooks = EmptyMap]
        merged   == merge_hook_entries(withHook.hooks, EmptyMap, config.hooks, inputs)
        record   == HookSetRecord(config, inputs, installed_files, merged.hook_entries)
    IN  IF st.settings.exists /\ ~st.settings.valid THEN Outcome(st, "ParseError")
        ELSE IF st.metadata.exists /\ ~st.metadata.valid THEN Outcome(st, "ParseError")
        ELSE IF ~merged.ok THEN Outcome(st, "TemplateError")
        ELSE IF ~meta.hasKey THEN Outcome(st, "KeyError")
        ELSE [settings |-> written_settings(withHook, merged.hooks),
              metadata |-> written_metadata(meta, hook_set_name, record),
              fs       |-> st.fs,
              result   |-> "ok"]

install_hook_set(st, hook_set_name, inputs) ==
    LET config == HookSetConfig(hook_set_name)
        dirs   == [st.fs EXCEPT !.dirs = @ \cup {<<>>, HooksDir}]
        copied == copy_hook_files(dirs, config.files, inputs, <<>>)
        after  == [st EXCEPT !.fs = copied.fs]
    IN  IF ~ConfigLoads(hook_set_name)
        THEN Outcome([st EXCEPT !.fs = dirs], "ConfigError")
        ELSE IF ~copied.ok THEN Outcome(after, "TemplateError")
        ELSE update_settings(after, config, inputs, hook_set_name, copied.installed_files)

\* variant: the loop stops at the first recorded file that is not there
RECURSIVE remove_until_missing(_, _)
remove_until_missing(tree, installed_files) ==
    IF installed_files = <<>> \/ Head(installed_files) \notin DOMAIN tree.files
    THEN tree
    ELSE remove_until_missing(
             [tree EXCEPT !.files = Restrict(@, DOMAIN @ \ {Head(installed_files)})],
             Tail(installed_files))

\* lines 167-172: unlink every recorded file that still exists
remove_hook_files(tree, installed_files) ==
    LET listed == {installed_files[i] : i \in 1..Len(installed_files)}
    IN  [tree EXCEPT !.files = Restrict(@, DOMAIN @ \ listed)]

HasChildren(tree, dir) ==
    \/ \E f \in DOMAIN tree.files : IsUnder(f, dir)
    \/ \E d \in tree.dirs : IsUnder(d, dir)

\* lines 174-181: rglob yields a directory before anything below it, so a
\* directory is tested while its subdirectories are all still there
remove_empty_dirs(tree) ==
    IF HooksDir \notin tree.dirs THEN tree
    ELSE [tree EXCEPT !.dirs =
             {d \in @ : ~(IsUnder(d, HooksDir) /\ ~HasChildren(tree, d))}]

\* variant: the recorded index is compared with a 1-based position
RemoveIndexOneBased(list, entry_index) ==
    LET keep == {i \in 1..Len(list) : i # entry_index}
        pos(k) == CHOOSE i \in keep : Cardinality({j \in keep : j <= i}) = k
    IN  [k \in 1..Cardinality(keep) |-> list[pos(k)]]

\* the list comprehension of lines 201-204
RemoveIndex(list, entry_index) ==
    LET keep == {i \in 1..Len(list) : i - 1 # entry_index}
        pos(k) == CHOOSE i \in keep : Cardinality({j \in keep : j <= i}) = k
    IN  [k \in 1..Cardinality(keep) |-> list[pos(k)]]

\* variant: an event type whose list became empty keeps its key
remove_hook_entries_keeping_empty(hooks, hook_entries) ==
    LET touched == DOMAIN hook_entries \cap DOMAIN hooks
    IN  [T \in DOMAIN hooks |->
            IF T \in touched THEN RemoveIndex(hooks[T], hook_entries[T])
            ELSE hooks[T]]

\* variant: every event type with an empty list loses its key
remove_dropping_every_empty(hooks, hook_entries) ==
    LET touched  == DOMAIN hook_entries \cap DOMAIN hooks
        filtered == [T \in DOMAIN hooks |->
                        IF T \in touched THEN RemoveIndex(hooks[T], hook_entries[T])
                        ELSE hooks[T]]
    IN  Restrict(filtered, {T \in DOMAIN hooks : filtered[T] # <<>>})

\* lines 183-208: drop the recorded position of every recorded event type
\* that the settings still have, and the event type when its list is empty
remove_hook_entries(hooks, hook_entries) ==
    LET touched  == DOMAIN hook_entries \cap DOMAIN hooks
        filtered == [T \in DOMAIN hooks |->
                        IF T \in touched THEN RemoveIndex(hooks[T], hook_entries[T])
                        ELSE hooks[T]]
    IN  Restrict(filtered, {T \in DOMAIN hooks : ~(T \in touched /\ filtered[T] = <<>>)})

\* lines 213-224: write the settings, or remove the file when no hooks remain
persist_settings(loaded, hooks) ==
    IF loaded.hasHooks /\ DOMAIN hooks # {}
    THEN SettingsFile("indent2", [loaded EXCEPT !.hooks = hooks])
    ELSE AbsentSettings

\* variant: the metadata file is written even when no record remains
persist_metadata_always(meta, remaining) ==
    MetadataFile("indent2", [meta EXCEPT !.sets = remaining])

\* lines 226-232: write the metadata, or remove the file when no record remains
persist_metadata(meta, remaining) ==
    IF DOMAIN remaining # {}
    THEN MetadataFile("indent2", [meta EXCEPT !.sets = remaining])
    ELSE AbsentMetadata

\* lines 147-163: the checks made before anything is changed
uninstall_error(st, hook_set_name) ==
    IF ~st.metadata.exists THEN "NotInstalled"
    ELSE IF st.settings.exists /\ ~st.settings.valid THEN "ParseError"
    ELSE IF ~st.metadata.valid THEN "ParseError"
    ELSE IF ~st.metadata.data.hasKey \/ hook_set_name \notin DOMAIN st.metadata.data.sets
         THEN "NotInstalled"
    ELSE "ok"

\* lines 165-232: what uninstall does once the checks have passed
remove_hook_set(st, hook_set_name) ==
    LET loaded   == IF st.settings.exists THEN st.settings.data
                    ELSE [hasHooks |-> TRUE, hooks |-> EmptyMap, other |-> EmptyMap]
        meta     == st.metadata.data
        info     == meta.sets[hook_set_name]
        tree     == remove_empty_dirs(remove_hook_files(st.fs, info.installed_files))
        hooks    == IF loaded.hasHooks
                    THEN remove_hook_entries(loaded.hooks, info.hook_entries)
                    ELSE EmptyMap
        remaining == Restrict(meta.sets, DOMAIN meta.sets \ {hook_set_name})
    IN  [settings |-> persist_settings(loaded, hooks),
         metadata |-> persist_metadata(meta, remaining),
         fs       |-> tree,
         result   |-> "ok"]

\* variant: the empty-directory sweep runs before the checks
uninstall_sweeping_first(st, hook_set_name) ==
    LET swept == [st EXCEPT !.fs = remove_empty_dirs(@)]
    IN  IF uninstall_error(st, hook_set_name) # "ok"
        THEN Outcome(swept, uninstall_error(st, hook_set_name))
        ELSE remove_hook_set(swept, hook_set_name)

\* variant: the recorded files are unlinked as soon as the record is found
uninstall_deleting_first(st, hook_set_name) ==
    LET found == /\ st.metadata.exists /\ st.metadata.valid
                 /\ st.metadata.data.hasKey
                 /\ hook_set_name \in DOMAIN st.metadata.data.sets
        files == IF found
                 THEN remove_hook_files(
                          st.fs, st.metadata.data.sets[hook_set_name].installed_files)
                 ELSE st.fs
    IN  IF uninstall_error(st, hook_set_name) # "ok"
        THEN Outcome([st EXCEPT !.fs = files], uninstall_error(st, hook_set_name))
        ELSE remove_hook_set(st, hook_set_name)

uninstall_hook_set(st, hook_set_name) ==
    IF uninstall_error(st, hook_set_name) # "ok"
    THEN Outcome(st, uninstall_error(st, hook_set_name))
    ELSE remove_hook_set(st, hook_set_name)

----------------------------------------------------------------------------
(* Target directories the installer may be pointed at *)

UserEntry == [matcher |-> <<>>, command |-> <<"u">>]

\* an entry written by the earlier revision that tagged entries in place
TaggedEntry == [matcher |-> <<>>, command |-> <<"o">>, _hook_set |-> "old"]

Target(s, m, tree) == [settings |-> s, metadata |-> m, fs |-> tree]

InitialTargets ==
    { \* nothing there yet
      Target(AbsentSettings, AbsentMetadata, NoTarget),
      \* the host tool's own settings, no hooks
      Target(SettingsFile("user", [hasHooks |-> FALSE, hooks |-> EmptyMap,
                                   other |-> ("model" :> "m")]),
             AbsentMetadata, BareTarget),
      \* a hook the operator wrote by hand
      Target(SettingsFile("user", [hasHooks |-> TRUE,
                                   hooks |-> ("PreToolUse" :> <<UserEntry>>),
                                   other |-> EmptyMap]),
             AbsentMetadata, UserTarget),
      \* an event type the operator left with an empty list
      Target(SettingsFile("user", [hasHooks |-> TRUE,
                                   hooks |-> ("Notification" :> <<>>),
                                   other |-> EmptyMap]),
             AbsentMetadata, BareTarget),
      \* both stores present and empty
      Target(SettingsFile("indent2", EmptySettingsData),
             MetadataFile("indent2", [hasKey |-> TRUE, sets |-> EmptyMap]),
             BareTarget),
      \* settings of the earlier revision, bookkeeping still inside
      Target(SettingsFile("indent2", [hasHooks |-> TRUE,
                                      hooks |-> ("Stop" :> <<TaggedEntry>>),
                                      other |-> ("installed_hook_sets" :> "old")]),
             AbsentMetadata, BareTarget),
      \* setC installed, settings.json damaged afterwards
      Target(MalformedSettings,
             MetadataFile("indent2",
                 [hasKey |-> TRUE,
                  sets |-> ("setC" :> HookSetRecord(HookSetConfig("setC"),
                                          << <<KeyP, <<"x">>>> >>,
                                          << <<"hooks", "c.sh">> >>, EmptyMap))]),
             [files |-> (<<"hooks", "c.sh">> :> <<"c">>), dirs |-> {<<>>, HooksDir}]),
      \* metadata damaged
      Target(AbsentSettings, MalformedMetadata, BareTarget),
      \* metadata without its installed_hook_sets key
      Target(AbsentSettings, MetadataFile("user", EmptyMetadataData), BareTarget) }

----------------------------------------------------------------------------
(* State machine of the installer *)

Current == Target(settings, metadata, fs)

IdleFlow == [pc |-> "Idle"]

NoProcs == <<>>

\* the home-scoped directory before anything was installed globally
NoHome == Target(AbsentSettings, AbsentMetadata, NoTarget)

NoUnit == [pc |-> "idle"]

Init ==
    /\ \E t \in InitialTargets :
          /\ settings = t.settings
          /\ metadata = t.metadata
          /\ fs = t.fs
    /\ hist = <<>>
    /\ flow = IdleFlow
    /\ procs = NoProcs
    /\ home = NoHome
    /\ unit = NoUnit

Apply(out) ==
    /\ settings' = out.settings
    /\ metadata' = out.metadata
    /\ fs' = out.fs

\* the install command without an interactive flow
Install(hook_set_name, inputs) ==
    /\ Len(hist) < MaxOps
    /\ LET out == install_hook_set(Current, hook_set_name, inputs)
       IN  /\ Apply(out)
           /\ hist' = Append(hist, [op |-> "install", name |-> hook_set_name,
                                    inputs |-> inputs, result |-> out.result,
                                    pre |-> Current])
    /\ UNCHANGED <<flow, procs, home, unit>>

\* the uninstall command
Uninstall(hook_set_name) ==
    /\ Len(hist) < MaxOps
    /\ LET out == uninstall_hook_set(Current, hook_set_name)
       IN  /\ Apply(out)
           /\ hist' = Append(hist, [op |-> "uninstall", name |-> hook_set_name,
                                    inputs |-> <<>>, result |-> out.result,
                                    pre |-> Current])
    /\ UNCHANGED <<flow, procs, home, unit>>

Next ==
    \/ \E n \in HookSetNames, i \in InputChoices : Install(n, i)
    \/ \E n \in HookSetNames : Uninstall(n)

Spec == Init /\ [][Next]_vars

----------------------------------------------------------------------------
(* Vocabulary of the properties *)

Ops == Len(hist)

Last == hist[Ops]

LastIs(op, result) == Ops > 0 /\ Last.op = op /\ Last.result = result

\* the event-type lists and the records a store file holds
HooksOf(file) == IF file.exists /\ file.valid THEN file.data.hooks ELSE EmptyMap

SetsOf(file) ==
    IF file.exists /\ file.valid /\ file.data.hasKey THEN file.data.sets ELSE EmptyMap

OtherOf(file) == IF file.exists /\ file.valid THEN file.data.other ELSE EmptyMap

Readable(file) == file.exists => file.valid

Rendered(name, T, inputs) == process_data(DeclaredEntry(name, T), inputs).out

\* list with the element at 0-based position index left out
Without(list, index) ==
    IF index < Len(list)
    THEN SubSeq(list, 1, index) \o SubSeq(list, index + 2, Len(list))
    ELSE list

\* what the lists of settings file f should be once record rec is taken out
HooksAfterRemoval(f, rec) ==
    LET hooks   == HooksOf(f)
        touched == DOMAIN rec.hook_entries \cap DOMAIN hooks
        lists   == [T \in DOMAIN hooks |->
                       IF T \in touched THEN Without(hooks[T], rec.hook_entries[T])
                       ELSE hooks[T]]
    IN  Restrict(lists, {T \in DOMAIN hooks : T \in touched => lists[T] # <<>>})

----------------------------------------------------------------------------
(* C1: install(S) followed immediately by uninstall(S) leaves the Settings   *)
(* Store and the Metadata Store exactly as they were before the install,     *)
(* whatever valid content (or absence) they started from.                    *)
C1_RoundTrip ==
    (/\ Ops >= 2
     /\ hist[Ops - 1].op = "install" /\ hist[Ops - 1].result = "ok"
     /\ Last.op = "uninstall" /\ Last.name = hist[Ops - 1].name
     /\ Last.result = "ok")
    => /\ settings = hist[Ops - 1].pre.settings
       /\ metadata = hist[Ops - 1].pre.metadata

(* C2: an install never removes or alters what was there: every entry keeps  *)
(* its position and content in its event type's list, and the record of      *)
(* every other hook set is unchanged.                                        *)
C2_InstallKeepsOthers ==
    (Ops > 0 /\ Last.op = "install")
    => /\ \A T \in DOMAIN HooksOf(Last.pre.settings) :
             /\ T \in DOMAIN HooksOf(settings)
             /\ Len(HooksOf(settings)[T]) >= Len(HooksOf(Last.pre.settings)[T])
             /\ \A i \in 1..Len(HooksOf(Last.pre.settings)[T]) :
                   HooksOf(settings)[T][i] = HooksOf(Last.pre.settings)[T][i]
       /\ \A n \in DOMAIN SetsOf(Last.pre.metadata) \ {Last.name} :
             /\ n \in DOMAIN SetsOf(metadata)
             /\ SetsOf(metadata)[n] = SetsOf(Last.pre.metadata)[n]

\* an install succeeded in a target where another hook set already had an
\* entry under an event type that this one declares too
C2_Witness ==
    /\ LastIs("install", "ok")
    /\ \E n \in DOMAIN SetsOf(Last.pre.metadata) \ {Last.name} :
          \E T \in DeclaredTypes(Last.name) :
             T \in DOMAIN SetsOf(Last.pre.metadata)[n].hook_entries

(* C3: from an empty target, installing A and then B, which both declare     *)
(* event type T, gives T the list <<A's entry, B's entry>>; uninstalling A   *)
(* then leaves exactly <<B's entry>>.                                        *)
FromEmpty == Ops > 0 /\ hist[1].pre = Target(AbsentSettings, AbsentMetadata, NoTarget)

InstalledAThenB(A, B) ==
    /\ Ops >= 2 /\ FromEmpty /\ A # B
    /\ hist[1].op = "install" /\ hist[1].name = A
    /\ hist[2].op = "install" /\ hist[2].name = B

C3_SharedEventType ==
    \A A \in HookSetNames, B \in HookSetNames :
        \A T \in DeclaredTypes(A) \cap DeclaredTypes(B) :
            /\ (InstalledAThenB(A, B) /\ Ops = 2)
               => HooksOf(settings)[T] = << Rendered(A, T, hist[1].inputs),
                                            Rendered(B, T, hist[2].inputs) >>
            /\ (InstalledAThenB(A, B) /\ Ops = 3
                /\ Last.op = "uninstall" /\ Last.name = A)
               => /\ Last.result = "ok"
                  /\ HooksOf(settings)[T] = << Rendered(B, T, hist[2].inputs) >>

C3_Witness ==
    /\ Ops = 3 /\ InstalledAThenB("setA", "setB")
    /\ Last.op = "uninstall" /\ Last.name = "setA"
    /\ Len(HooksOf(Last.pre.settings)["PreToolUse"]) = 2


(* C4: uninstall(name) fails when the Metadata Store file does not exist or  *)
(* name is not a key of its installed-set mapping, and then changes nothing: *)
(* settings, metadata and every file are as before.  The error is            *)
(* Not-Installed, except that with the Metadata Store present and a Settings *)
(* Store that does not parse the parse error is raised first.                *)
NotRecorded(t, name) ==
    \/ ~t.metadata.exists
    \/ t.metadata.valid /\ name \notin DOMAIN SetsOf(t.metadata)

C4_NotInstalledChangesNothing ==
    (Ops > 0 /\ Last.op = "uninstall" /\ NotRecorded(Last.pre, Last.name))
    => /\ Current = Last.pre
       /\ Last.result = IF Last.pre.metadata.exists /\ ~Readable(Last.pre.settings)
                        THEN "ParseError" ELSE "NotInstalled"

\* C4 as stated: the error is Not-Installed in every such case
C4_AlwaysNotInstalled ==
    (Ops > 0 /\ Last.op = "uninstall" /\ NotRecorded(Last.pre, Last.name))
    => /\ Current = Last.pre
       /\ Last.result = "NotInstalled"

\* a name that is not recorded was uninstalled while other sets were
\* installed and files and an empty directory were there to lose
C4_Witness ==
    /\ LastIs("uninstall", "NotInstalled")
    /\ DOMAIN SetsOf(Last.pre.metadata) # {}
    /\ DOMAIN Last.pre.fs.files # {}
    /\ \E d \in Last.pre.fs.dirs : IsUnder(d, HooksDir) /\ ~HasChildren(Last.pre.fs, d)

(* C5: from a Settings Store without installer-private fields, every state   *)
(* of the Settings Store is free of them: no installed-set mapping at top    *)
(* level, no top-level key the installer added besides hooks, no tag field   *)
(* in any entry; after a successful install the name, files, indices and     *)
(* inputs are in the Metadata Store record.                                  *)
Clean(file) ==
    /\ "installed_hook_sets" \notin DOMAIN OtherOf(file)
    /\ \A T \in DOMAIN HooksOf(file) : \A i \in 1..Len(HooksOf(file)[T]) :
          "_hook_set" \notin DOMAIN HooksOf(file)[T][i]

Start == IF Ops = 0 THEN Current ELSE hist[1].pre

C5_SettingsClean ==
    Clean(Start.settings)
    => /\ Clean(settings)
       /\ DOMAIN OtherOf(settings) \subseteq DOMAIN OtherOf(Start.settings)
       /\ LastIs("install", "ok")
          => /\ Last.name \in DOMAIN SetsOf(metadata)
             /\ SetsOf(metadata)[Last.name].inputs = Last.inputs
             /\ SetsOf(metadata)[Last.name].config.name = Last.name
             /\ DOMAIN SetsOf(metadata)[Last.name].hook_entries = DeclaredTypes(Last.name)
             /\ Len(SetsOf(metadata)[Last.name].installed_files)
                    = Len(HookSetConfig(Last.name).files)

C5_Witness ==
    /\ LastIs("install", "ok")
    /\ Clean(Start.settings)
    /\ DOMAIN OtherOf(settings) # {}
    /\ \E T \in DOMAIN HooksOf(settings) : Len(HooksOf(settings)[T]) >= 2

(* C6: a successful install of S records, for every event type T that S      *)
(* declares, the length T's list had before the append, and T's list is the  *)
(* old list with the rendered entry added at that position, the last one.    *)
LenBefore(T) ==
    IF T \in DOMAIN HooksOf(Last.pre.settings) THEN Len(HooksOf(Last.pre.settings)[T]) ELSE 0

C6_IndexIsAppendPosition ==
    LastIs("install", "ok")
    => \A T \in DeclaredTypes(Last.name) :
          LET index == SetsOf(metadata)[Last.name].hook_entries[T]
          IN  /\ index = LenBefore(T)
              /\ Len(HooksOf(settings)[T]) = index + 1
              /\ HooksOf(settings)[T][index + 1] = Rendered(Last.name, T, Last.inputs)

C6_Witness ==
    /\ LastIs("install", "ok")
    /\ \E T \in DeclaredTypes(Last.name) : LenBefore(T) >= 1

RemainingSets == Restrict(SetsOf(Last.pre.metadata),
                          DOMAIN SetsOf(Last.pre.metadata) \ {Last.name})

RemainingHooks ==
    HooksAfterRemoval(Last.pre.settings, SetsOf(Last.pre.metadata)[Last.name])

StoresHoldRemainder ==
    /\ metadata.exists <=> DOMAIN RemainingSets # {}
    /\ metadata.exists => SetsOf(metadata) = RemainingSets
    /\ settings.exists => /\ HooksOf(settings) = RemainingHooks
                          /\ OtherOf(settings) = OtherOf(Last.pre.settings)

C8_FilesExistIffKeysRemain ==
    LastIs("uninstall", "ok")
    => /\ settings.exists <=> DOMAIN RemainingHooks # {}
       /\ StoresHoldRemainder

\* C8 as stated: the settings file exists iff a non-empty list remains
C8_FilesExistIffEntriesRemain ==
    LastIs("uninstall", "ok")
    => /\ settings.exists <=> (\E T \in DOMAIN RemainingHooks : RemainingHooks[T] # <<>>)
       /\ StoresHoldRemainder

\* an uninstall succeeded and left entries and records behind, so that both
\* files were rewritten rather than removed
C8_Witness ==
    /\ LastIs("uninstall", "ok")
    /\ settings.exists /\ metadata.exists
    /\ DOMAIN RemainingSets # {}
    /\ \E T \in DOMAIN RemainingHooks : RemainingHooks[T] # <<>>


(* C17: a successful install of a hook set S that already has a record adds  *)
(* one rendered entry at the end of the list of every event type S declares, *)
(* leaves every earlier entry where it was (duplicates included) and every   *)
(* other list and record alone, and replaces S's record by one whose         *)
(* hook_entries point at the entries just appended.                          *)
OldList(T) ==
    IF T \in DOMAIN HooksOf(Last.pre.settings) THEN HooksOf(Last.pre.settings)[T] ELSE <<>>

C17_ReinstallAppends ==
    (LastIs("install", "ok") /\ Last.name \in DOMAIN SetsOf(Last.pre.metadata))
    => LET S   == Last.name
           rec == SetsOf(metadata)[S]
       IN  /\ DOMAIN HooksOf(settings)
                 = DOMAIN HooksOf(Last.pre.settings) \cup DeclaredTypes(S)
           /\ \A T \in DOMAIN HooksOf(settings) :
                 HooksOf(settings)[T] =
                    IF T \in DeclaredTypes(S)
                    THEN Append(OldList(T), Rendered(S, T, Last.inputs))
                    ELSE OldList(T)
           /\ DOMAIN SetsOf(metadata) = DOMAIN SetsOf(Last.pre.metadata)
           /\ \A other \in DOMAIN SetsOf(metadata) \ {S} :
                 SetsOf(metadata)[other] = SetsOf(Last.pre.metadata)[other]
           /\ rec.inputs = Last.inputs
           /\ DOMAIN rec.hook_entries = DeclaredTypes(S)
           /\ \A T \in DeclaredTypes(S) :
                 rec.hook_entries[T] = Len(HooksOf(settings)[T]) - 1

\* S was installed twice with the same inputs: the list holds the same entry
\* twice and the record moved from the first to the second
C17_Witness ==
    /\ LastIs("install", "ok")
    /\ Last.name \in DOMAIN SetsOf(Last.pre.metadata)
    /\ \E T \in DeclaredTypes(Last.name) :
          LET list == HooksOf(settings)[T]
          IN  /\ Len(list) >= 2
              /\ list[Len(list)] = list[Len(list) - 1]
              /\ SetsOf(Last.pre.metadata)[Last.name].hook_entries[T] = Len(list) - 2
              /\ SetsOf(metadata)[Last.name].hook_entries[T] = Len(list) - 1

----------------------------------------------------------------------------
(* Two install commands running at the same time against one target          *)
(* directory.  Each file access of install_hook_set / _update_settings is    *)
(* one step; open(file, 'w') empties the file before json.dump fills it.     *)

Procs == {1, 2}

ProcStart(hook_set_name, inputs) ==
    [pc |-> "copy", name |-> hook_set_name, inputs |-> inputs,
     installed_files |-> <<>>, settings |-> EmptySettingsData,
     metadata |-> EmptyMetadataData, hooks |-> EmptyMap, record |-> EmptyMap,
     result |-> "running"]

InitConcurrent ==
    /\ \E t \in InitialTargets :
          /\ settings = t.settings
          /\ metadata = t.metadata
          /\ fs = t.fs
    /\ hist = <<>>
    /\ flow = IdleFlow
    /\ \E n1 \in HookSetNames, n2 \in HookSetNames :
          procs = <<ProcStart(n1, << <<KeyP, <<"x">> >> >>),
                    ProcStart(n2, << <<KeyP, <<"x">> >> >>)>>
    /\ home = NoHome
    /\ unit = NoUnit

Event(p, op) ==
    [op |-> op, proc |-> p, name |-> procs[p].name, inputs |-> procs[p].inputs,
     result |-> "ok", pre |-> Current]

Failed(p, error) == [procs EXCEPT ![p].pc = "failed", ![p].result = error]

\* open(file, 'w'): the file exists and is empty, which is not valid JSON
Truncated(file) == [file EXCEPT !.exists = TRUE, !.valid = FALSE]

\* installer.py lines 30-71
CopyFiles(p) ==
    /\ procs[p].pc = "copy"
    /\ LET config == HookSetConfig(procs[p].name)
           dirs   == [fs EXCEPT !.dirs = @ \cup {<<>>, HooksDir}]
           copied == copy_hook_files(dirs, config.files, procs[p].inputs, <<>>)
       IN  /\ fs' = copied.fs
           /\ procs' = IF copied.ok
                       THEN [procs EXCEPT ![p].pc = "load_settings",
                                          ![p].installed_files = copied.installed_files]
                       ELSE Failed(p, "TemplateError")
    /\ hist' = Append(hist, Event(p, "copy"))
    /\ UNCHANGED <<settings, metadata, flow, home, unit>>

\* lines 82-86
LoadSettings(p) ==
    /\ procs[p].pc = "load_settings"
    /\ procs' = IF settings.exists /\ ~settings.valid
                THEN Failed(p, "ParseError")
                ELSE [procs EXCEPT ![p].pc = "load_metadata",
                                   ![p].settings = IF settings.exists THEN settings.data
                                                   ELSE EmptySettingsData]
    /\ hist' = Append(hist, Event(p, "load_settings"))
    /\ UNCHANGED <<settings, metadata, fs, flow, home, unit>>

\* variant: the lists are merged into what settings.json holds at the time
\* of the merge instead of into what this command loaded
hooks_to_write_rereading(p, loaded, file) ==
    merge_hook_entries(IF file.exists /\ file.valid /\ file.data.hasHooks
                       THEN file.data.hooks ELSE EmptyMap,
                       EmptyMap, HookSetConfig(procs[p].name).hooks, procs[p].inputs)

\* lines 95-119 on the settings this command loaded
hooks_to_write(p, loaded, file) ==
    merge_hook_entries(IF loaded.hasHooks THEN loaded.hooks ELSE EmptyMap,
                       EmptyMap, HookSetConfig(procs[p].name).hooks, procs[p].inputs)

\* lines 89-131: load the metadata, then merge and build the record in memory
LoadMetadata(p) ==
    /\ procs[p].pc = "load_metadata"
    /\ LET meta   == IF metadata.exists THEN metadata.data
                     ELSE [hasKey |-> TRUE, sets |-> EmptyMap]
           merged == hooks_to_write(p, procs[p].settings, settings)
       IN  procs' =
             IF metadata.exists /\ ~metadata.valid THEN Failed(p, "ParseError")
             ELSE IF ~merged.ok THEN Failed(p, "TemplateError")
             ELSE IF ~meta.hasKey THEN Failed(p, "KeyError")
             ELSE [procs EXCEPT
                      ![p].pc = "open_settings",
                      ![p].metadata = meta,
                      ![p].settings = [@ EXCEPT !.hasHooks = TRUE, !.hooks = merged.hooks],
                      ![p].hooks = merged.hooks,
                      ![p].record = HookSetRecord(HookSetConfig(procs[p].name),
                                        procs[p].inputs, procs[p].installed_files,
                                        merged.hook_entries)]
    /\ hist' = Append(hist, Event(p, "load_metadata"))
    /\ UNCHANGED <<settings, metadata, fs, flow, home, unit>>

\* line 134
OpenSettings(p) ==
    /\ procs[p].pc = "open_settings"
    /\ settings' = Truncated(settings)
    /\ procs' = [procs EXCEPT ![p].pc = "dump_settings"]
    /\ hist' = Append(hist, Event(p, "open_settings"))
    /\ UNCHANGED <<metadata, fs, flow, home, unit>>

\* line 135
DumpSettings(p) ==
    /\ procs[p].pc = "dump_settings"
    /\ settings' = written_settings(procs[p].settings, procs[p].hooks)
    /\ procs' = [procs EXCEPT ![p].pc = "open_metadata"]
    /\ hist' = Append(hist, Event(p, "dump_settings"))
    /\ UNCHANGED <<metadata, fs, flow, home, unit>>

\* line 138
OpenMetadata(p) ==
    /\ procs[p].pc = "open_metadata"
    /\ metadata' = Truncated(metadata)
    /\ procs' = [procs EXCEPT ![p].pc = "dump_metadata"]
    /\ hist' = Append(hist, Event(p, "open_metadata"))
    /\ UNCHANGED <<settings, fs, flow, home, unit>>

\* line 139
DumpMetadata(p) ==
    /\ procs[p].pc = "dump_metadata"
    /\ metadata' = written_metadata(procs[p].metadata, procs[p].name, procs[p].record)
    /\ procs' = [procs EXCEPT ![p].pc = "done", ![p].result = "ok"]
    /\ hist' = Append(hist, Event(p, "dump_metadata"))
    /\ UNCHANGED <<settings, fs, flow, home, unit>>

NextConcurrent ==
    \E p \in Procs :
        \/ CopyFiles(p)
        \/ LoadSettings(p)
        \/ LoadMetadata(p)
        \/ OpenSettings(p)
        \/ DumpSettings(p)
        \/ OpenMetadata(p)
        \/ DumpMetadata(p)

SpecConcurrent == InitConcurrent /\ [][NextConcurrent]_vars

----------------------------------------------------------------------------
(* Vocabulary of the properties of concurrent installs *)

Pos(p, op) == CHOOSE i \in 1..Len(hist) : hist[i].proc = p /\ hist[i].op = op

BothInstalled == \A p \in Procs : procs[p].pc = "done"

LastWriter(op) == CHOOSE p \in Procs : \A q \in Procs : Pos(q, op) <= Pos(p, op)

Other(p) == 3 - p

\* what command p found in the stores when it loaded them
LoadedHooks(p) == HooksOf(hist[Pos(p, "load_settings")].pre.settings)

LoadedSets(p) == SetsOf(hist[Pos(p, "load_metadata")].pre.metadata)

MergedHooks(p, hooks) ==
    merge_hook_entries(hooks, EmptyMap, HookSetConfig(procs[p].name).hooks,
                       procs[p].inputs).hooks

\* both commands loaded each store before the other one wrote it
BothReadBeforeEitherWrote ==
    \A p \in Procs :
        /\ Pos(p, "load_settings") < Pos(Other(p), "open_settings")
        /\ Pos(p, "load_metadata") < Pos(Other(p), "open_metadata")

(* C18: when two concurrent installs have both finished, each store holds    *)
(* what its last writer loaded plus that writer's own entries or record, and *)
(* nothing else.  If both loaded the stores before either wrote them, the    *)
(* record and the entries of the other install are not in the stores; if one *)
(* install finished before the other loaded anything, nothing is lost.       *)
C18_LastWriterWins ==
    BothInstalled
    => LET ws == LastWriter("dump_settings")
           wm == LastWriter("dump_metadata")
       IN  /\ HooksOf(settings) = MergedHooks(ws, LoadedHooks(ws))
           /\ SetsOf(metadata) = (procs[wm].name :> procs[wm].record) @@ LoadedSets(wm)
           /\ BothReadBeforeEitherWrote
              => /\ HooksOf(settings) = MergedHooks(ws, HooksOf(hist[1].pre.settings))
                 /\ DOMAIN SetsOf(metadata)
                       = DOMAIN SetsOf(hist[1].pre.metadata) \cup {procs[wm].name}
           /\ Pos(Other(wm), "dump_metadata") < Pos(wm, "load_settings")
              => /\ {procs[1].name, procs[2].name} \subseteq DOMAIN SetsOf(metadata)
                 /\ HooksOf(settings)
                       = MergedHooks(wm, MergedHooks(Other(wm), HooksOf(hist[1].pre.settings)))

\* two different hook sets were installed into an empty target, both loaded
\* the stores before either wrote, and only the last writer's record and
\* entries are in the stores
C18_Witness ==
    /\ BothInstalled
    /\ BothReadBeforeEitherWrote
    /\ hist[1].pre = Target(AbsentSettings, AbsentMetadata, NoTarget)
    /\ procs[1].name = "setA" /\ procs[2].name = "setB"
    /\ LastWriter("dump_metadata") = 2 /\ LastWriter("dump_settings") = 2
    /\ DOMAIN SetsOf(metadata) = {"setB"}
    /\ DOMAIN HooksOf(settings) = DeclaredTypes("setB")
    /\ \A T \in DeclaredTypes("setB") : Len(HooksOf(settings)[T]) = 1

----------------------------------------------------------------------------
(* interactive/paths.py, interactive/actions.py *)

PathTypes == {"full", "default", "exit"}

\* ActionRegistry._actions with the constructor parameters of each class
RegisteredActions ==
    {"show_message", "exit_with_message", "copy_docker_infrastructure",
     "validate_ports", "check_docker"}

ActionParams(action_type) ==
    IF action_type \in {"show_message", "exit_with_message"} THEN {"message"}
    ELSE IF action_type = "copy_docker_infrastructure" THEN {"source", "target"}
    ELSE IF action_type = "validate_ports" THEN {"ports"}
    ELSE {}

\* PathAction.__dict__: the type and every other key of the action spec
action_kwargs(path_action) == {"type"} \cup path_action.attrs

\* ActionRegistry.get_action: None for an unknown type, else
\* action_class(**kwargs), which raises TypeError unless the keywords are
\* exactly the constructor's parameters
get_action(action_type, kwargs) ==
    IF action_type \notin RegisteredActions THEN "none"
    ELSE IF kwargs # ActionParams(action_type) THEN "TypeError"
    ELSE "action"

\* what the environment makes of one execute(): template rendering of the
\* message, presence of the infrastructure source, outcome of the probe
ProbeOutcomes == {"zero", "nonzero", "notfound", "error"}

EnvOutcomes == {"fine", "broken"} \cup ProbeOutcomes

\* execute() of each action class: "true", "false", "raise" or "exit0"
execute(action_type, env) ==
    IF action_type = "show_message"
    THEN IF env = "broken" THEN "raise" ELSE "true"
    ELSE IF action_type = "exit_with_message"
    THEN IF env = "broken" THEN "raise" ELSE "exit0"
    ELSE IF action_type = "copy_docker_infrastructure"
    THEN IF env = "broken" THEN "false" ELSE "true"
    ELSE IF action_type = "validate_ports" THEN "true"
    ELSE IF env \in {"nonzero", "notfound"} THEN "false" ELSE "true"

\* files CopyDockerInfrastructureAction leaves below the target directory
DockerTree(tree) ==
    [files |-> (<<"docker", "docker-compose.yml">> :> <<"d">>) @@ tree.files,
     dirs  |-> tree.dirs \cup {<<>>, <<"docker">>}]

----------------------------------------------------------------------------
(* interactive/installer.py: InteractiveInstaller *)

NoneValue == <<"None">>

\* inputs the operator types at a prompt
TypedValues == {<<"x">>}

Input(name, hasRequired, required, hasDefault, default) ==
    [name |-> name, hasRequired |-> hasRequired, required |-> required,
     hasDefault |-> hasDefault, default |-> default]

\* input_config.get("required", True)
IsRequired(input_config) ==
    IF input_config.hasRequired THEN input_config.required ELSE TRUE

\* variant: DEFAULT and EXIT treated like FULL
should_ask_always(path_type, required) == TRUE

\* lines 135-145
should_ask(path_type, required) ==
    IF path_type = "full" THEN TRUE
    ELSE IF path_type = "default" THEN required
    ELSE FALSE

\* Prompt.ask(..., default=d) returns d when the operator just presses enter
EnterValue(input_config) ==
    IF IsRequired(input_config)
    THEN IF input_config.hasDefault THEN input_config.default ELSE NoneValue
    ELSE IF input_config.hasDefault THEN input_config.default ELSE <<>>

\* inputs[name] = value on an insertion-ordered dict
SetVar(variables, key, value) ==
    IF HasVar(variables, key)
    THEN [i \in 1..Len(variables) |->
             IF variables[i][1] = key THEN <<key, value>> ELSE variables[i]]
    ELSE Append(variables, <<key, value>>)

\* lines 119-125
Prefill(hook_name, path_name) ==
    IF path_name = "docker_deploy" /\ hook_name = "observability_viz"
    THEN << << <<"influxdb_token">>, <<"claude-observability-token">> >>,
            << <<"influxdb_url">>, <<"http://localhost:8086">> >>,
            << <<"influxdb_org">>, <<"events-org">> >>,
            << <<"influxdb_bucket">>, <<"application-events">> >> >>
    ELSE <<>>

\* hook set definitions with an interactive flow
InputDeclarations ==
    { << Input(<<"token">>, TRUE, TRUE, FALSE, <<>>),
         Input(<<"url">>, TRUE, FALSE, TRUE, <<"http://localhost">>) >>,
      << Input(<<"influxdb_token">>, FALSE, TRUE, TRUE, <<"t">>),
         Input(<<"influxdb_url">>, TRUE, FALSE, TRUE, <<"u">>) >>,
      << Input(<<"note">>, TRUE, FALSE, FALSE, <<>>) >> }

ActionTypes == RegisteredActions \cup {"bogus"}

ActionSpec(action_type) == [type |-> action_type, attrs |-> ActionParams(action_type)]

ActionLists ==
    UNION {[1..n -> {ActionSpec(t) : t \in ActionTypes}] : n \in 0..MaxActions}

Path(name, path_type, actions) ==
    [name |-> name, label |-> name, path_type |-> path_type, actions |-> actions]

FlowConfigs ==
    {[hook_name |-> h, inputs |-> d, force |-> f, target |-> "claude",
      paths |-> << Path("docker_deploy", t, a), Path("manual", "full", <<>>) >>] :
        h \in {"observability_viz", "setA"}, d \in InputDeclarations,
        f \in BOOLEAN, t \in PathTypes, a \in ActionLists}
    \cup
    {[hook_name |-> "setA", inputs |-> <<>>, force |-> FALSE, target |-> t,
      paths |-> p] :
        t \in {"claude", "cursor"},
        p \in {<<>>, << Path("only", "default", <<ActionSpec("validate_ports")>>) >>}}

FlowStart(cfg, target) ==
    [pc |-> "PresentingChoice", cfg |-> cfg, start |-> target, choice |-> 0, inputs |-> <<>>,
     asked |-> <<>>, next |-> 1, collected |-> FALSE, act |-> 1, ran |-> <<>>,
     installs |-> 0, reprompts |-> 0, result |-> "running", error |-> "none",
     named |-> "none", trail |-> <<"PresentingChoice">>, selected |-> "none"]

SelectedPath == flow.cfg.paths[flow.choice]

NextInput == flow.cfg.inputs[flow.next]

Asking ==
    /\ flow.pc = "CollectingParameters"
    /\ should_ask(SelectedPath.path_type, IsRequired(NextInput))

\* the loop of _collect_parameters is over once every declared input was seen
AfterInput(f) ==
    IF f.next > Len(f.cfg.inputs)
    THEN [f EXCEPT !.pc = "ExecutingActions", !.collected = TRUE,
                   !.trail = Append(@, "ExecutingActions")]
    ELSE f

\* variant: every ending is reported as success
Finish_reporting_success(f, pc, result, error, named) ==
    [f EXCEPT !.pc = pc, !.result = "true", !.error = error, !.named = named,
              !.trail = Append(@, pc)]

Finish(f, pc, result, error, named) ==
    [f EXCEPT !.pc = pc, !.result = result, !.error = error, !.named = named,
              !.trail = Append(@, pc)]

\* hook_manager.install: sys.exit(0) when run() returned True, else
\* sys.exit(1); sys.exit(0) of an exit-with-message action ends the process
exit_status(result) == IF result \in {"true", "exit0"} THEN 0 ELSE 1

InitFlow ==
    /\ \E t \in {Target(AbsentSettings, AbsentMetadata, NoTarget),
                 Target(SettingsFile("user", [hasHooks |-> TRUE,
                                              hooks |-> ("PreToolUse" :> <<UserEntry>>),
                                              other |-> EmptyMap]),
                        AbsentMetadata, UserTarget),
                 Target(MalformedSettings, AbsentMetadata, BareTarget)} :
          /\ settings = t.settings
          /\ metadata = t.metadata
          /\ fs = t.fs
          /\ \E cfg \in FlowConfigs : flow = FlowStart(cfg, t)
    /\ hist = <<>>
    /\ procs = NoProcs
    /\ home = NoHome
    /\ unit = NoUnit

\* _get_user_path_choice with no path configured
NoPaths ==
    /\ flow.pc = "PresentingChoice"
    /\ flow.cfg.paths = <<>>
    /\ flow' = Finish(flow, "Aborted", "false", "NoPaths", "none")
    /\ UNCHANGED <<settings, metadata, fs, hist, procs, home, unit>>

\* an answer outside 1..N: Prompt.ask asks again
InvalidChoice ==
    /\ flow.pc = "PresentingChoice"
    /\ flow.cfg.paths # <<>>
    /\ flow.reprompts < MaxReprompts
    /\ flow' = [flow EXCEPT !.reprompts = @ + 1]
    /\ UNCHANGED <<settings, metadata, fs, hist, procs, home, unit>>

\* variant: the answer is used as an index that counts from 0
path_item_from_zero(path_items, choice) ==
    path_items[IF choice < Len(path_items) THEN choice + 1 ELSE 1]

\* path_items[int(choice) - 1] of the list shown by enumerate(path_items, 1)
path_item(path_items, choice) == path_items[choice]

\* answer k of 1..N, then the start of _collect_parameters
ChoosePath(k) ==
    /\ flow.pc = "PresentingChoice"
    /\ k \in 1..Len(flow.cfg.paths)
    /\ flow' = AfterInput([flow EXCEPT
                    !.pc = "CollectingParameters",
                    !.trail = Append(@, "CollectingParameters"),
                    !.choice = k,
                    !.selected = path_item(flow.cfg.paths, k).name,
                    !.inputs = Prefill(flow.cfg.hook_name,
                                       path_item(flow.cfg.paths, k).name)])
    /\ UNCHANGED <<settings, metadata, fs, hist, procs, home, unit>>

\* lines 147-151: the operator answers the prompt for the next input
AnswerPrompt(value) ==
    /\ Asking
    /\ value \in TypedValues \cup {EnterValue(NextInput)}
    /\ flow' = AfterInput([flow EXCEPT
                    !.inputs = SetVar(@, NextInput.name, value),
                    !.asked = Append(@, NextInput.name),
                    !.next = @ + 1])
    /\ UNCHANGED <<settings, metadata, fs, hist, procs, home, unit>>

\* lines 152-155: the next input is not asked for
UseDefault ==
    /\ flow.pc = "CollectingParameters"
    /\ ~Asking
    /\ flow' = AfterInput([flow EXCEPT
                    !.inputs = IF NextInput.hasDefault
                               THEN SetVar(@, NextInput.name, NextInput.default)
                               ELSE @,
                    !.next = @ + 1])
    /\ UNCHANGED <<settings, metadata, fs, hist, procs, home, unit>>

\* KeyboardInterrupt while a prompt is waiting (lines 84-86)
Cancel ==
    /\ \/ flow.pc = "PresentingChoice" /\ flow.cfg.paths # <<>>
       \/ Asking
       \/ flow.pc = "Installing" /\ ~flow.cfg.force
    /\ flow' = Finish(flow, "Aborted", "false", "Cancelled", "none")
    /\ UNCHANGED <<settings, metadata, fs, hist, procs, home, unit>>

\* one iteration of the loop of _execute_path_actions (lines 164-183)
ExecuteAction(env) ==
    /\ flow.pc = "ExecutingActions"
    /\ flow.act <= Len(SelectedPath.actions)
    /\ LET path_action == SelectedPath.actions[flow.act]
           action      == get_action(path_action.type, action_kwargs(path_action))
           outcome     == execute(path_action.type, env)
       IN  IF ~get_target_directory(flow.cfg.target, "local").ok
           THEN /\ flow' = Finish(flow, "Aborted", "false", "UnsupportedTarget", "none")
                /\ fs' = fs
           ELSE IF action = "none"
           THEN /\ flow' = Finish(flow, "Aborted", "false", "UnknownAction",
                                  path_action.type)
                /\ fs' = fs
           ELSE IF action = "TypeError"
           THEN /\ flow' = Finish(flow, "Aborted", "false", "TypeError", "none")
                /\ fs' = fs
           ELSE /\ flow' =
                      IF outcome = "true"
                      THEN [flow EXCEPT !.ran = Append(@, path_action.type),
                                        !.act = @ + 1]
                      ELSE IF outcome = "exit0"
                      THEN Finish([flow EXCEPT !.ran = Append(@, path_action.type)],
                                  "Exited", "exit0", "none", "none")
                      ELSE IF outcome = "false"
                      THEN Finish([flow EXCEPT !.ran = Append(@, path_action.type)],
                                  "Aborted", "false", "ActionFailed", path_action.type)
                      ELSE Finish([flow EXCEPT !.ran = Append(@, path_action.type)],
                                  "Aborted", "false", "Exception", "none")
                /\ fs' = IF path_action.type = "copy_docker_infrastructure"
                            /\ outcome = "true"
                         THEN DockerTree(fs) ELSE fs
    /\ UNCHANGED <<settings, metadata, hist, procs, home, unit>>

\* variant: the Installer runs after the actions of an EXIT path too
FinishActions_installing_on_exit ==
    /\ flow.pc = "ExecutingActions"
    /\ flow.act > Len(SelectedPath.actions)
    /\ flow' = [flow EXCEPT !.pc = "Installing", !.trail = Append(@, "Installing")]
    /\ UNCHANGED <<settings, metadata, fs, hist, procs, home, unit>>

\* every action returned True (or there was none): lines 78-82
FinishActions ==
    /\ flow.pc = "ExecutingActions"
    /\ flow.act > Len(SelectedPath.actions)
    /\ flow' = IF SelectedPath.path_type = "exit"
               THEN Finish(flow, "Done", "true", "none", "none")
               ELSE [flow EXCEPT !.pc = "Installing",
                                 !.trail = Append(@, "Installing")]
    /\ UNCHANGED <<settings, metadata, fs, hist, procs, home, unit>>

\* _run_standard_installation: the confirmation unless forced, then the
\* Installer; an exception of the Installer is reported as False
RunStandardInstallation(confirmed) ==
    /\ flow.pc = "Installing"
    /\ flow.cfg.force => confirmed
    /\ IF ~confirmed
       THEN /\ flow' = Finish(flow, "Aborted", "false", "Declined", "none")
            /\ UNCHANGED <<settings, metadata, fs, hist, procs, home, unit>>
       ELSE IF ~get_target_directory(flow.cfg.target, "local").ok
       THEN /\ flow' = Finish([flow EXCEPT !.installs = @ + 1],
                              "Aborted", "false", "InstallFailed", "none")
            /\ UNCHANGED <<settings, metadata, fs, hist, procs, home, unit>>
       ELSE LET out == install_hook_set(Current, flow.cfg.hook_name, flow.inputs)
            IN  /\ Apply(out)
                /\ UNCHANGED <<procs, home, unit>>
                /\ hist' = Append(hist, [op |-> "install", name |-> flow.cfg.hook_name,
                                         inputs |-> flow.inputs, result |-> out.result,
                                         pre |-> Current])
                /\ flow' = IF out.result = "ok"
                           THEN Finish([flow EXCEPT !.installs = @ + 1],
                                       "Done", "true", "none", "none")
                           ELSE Finish([flow EXCEPT !.installs = @ + 1],
                                       "Aborted", "false", "InstallFailed", "none")

\* everything a prompt can return
AnswerValues ==
    TypedValues \cup {NoneValue, <<>>}
        \cup UNION {{d[i].default : i \in 1..Len(d)} : d \in InputDeclarations}

NextFlow ==
    \/ NoPaths
    \/ InvalidChoice
    \/ \E k \in 1..2 : ChoosePath(k)
    \/ \E v \in AnswerValues : AnswerPrompt(v)
    \/ UseDefault
    \/ Cancel
    \/ \E env \in EnvOutcomes : ExecuteAction(env)
    \/ FinishActions
    \/ \E c \in BOOLEAN : RunStandardInstallation(c)

SpecFlow == InitFlow /\ [][NextFlow]_vars


----------------------------------------------------------------------------
(* Vocabulary of the properties of the interactive flow *)

Ended == flow.pc \in {"Done", "Aborted", "Exited"}

\* the policy of the three path types; an input is required when its
\* declaration says so or says nothing
Prompted(input_config, path_type) ==
    \/ path_type = "full"
    \/ path_type = "default" /\ IsRequired(input_config)

NamesOf(declared) == [i \in 1..Len(declared) |-> declared[i].name]

TokenAndUrl ==
    << Input(<<"token">>, TRUE, TRUE, FALSE, <<>>),
       Input(<<"url">>, TRUE, FALSE, TRUE, <<"http://localhost">>) >>

(* C9: once the parameters of the selected path are collected, the prompts   *)
(* that were shown are, in declaration order, every declared input for FULL, *)
(* the required ones for DEFAULT and none for EXIT, and every input that was *)
(* not prompted and declares a default has that default as its value.  With  *)
(* token (required, no default) and url (optional, default http://localhost) *)
(* DEFAULT prompts for token only and sets url to http://localhost, FULL     *)
(* prompts for both.                                                         *)
C9_PathTypePolicy ==
    flow.collected
    => LET t        == SelectedPath.path_type
           declared == flow.cfg.inputs
       IN  /\ flow.asked = NamesOf(SelectSeq(declared, LAMBDA d : Prompted(d, t)))
           /\ \A i \in 1..Len(declared) :
                 (~Prompted(declared[i], t) /\ declared[i].hasDefault)
                 => /\ HasVar(flow.inputs, declared[i].name)
                    /\ VarValue(flow.inputs, declared[i].name) = declared[i].default
           /\ (declared = TokenAndUrl /\ t = "default")
              => /\ flow.asked = << <<"token">> >>
                 /\ VarValue(flow.inputs, <<"url">>) = <<"http://localhost">>
           /\ (declared = TokenAndUrl /\ t = "full")
              => flow.asked = << <<"token">>, <<"url">> >>
           /\ t = "exit" => flow.asked = <<>>

C9_Witness ==
    /\ flow.collected
    /\ flow.cfg.inputs = TokenAndUrl
    /\ SelectedPath.path_type = "default"
    /\ flow.asked = << <<"token">> >>
    /\ VarValue(flow.inputs, <<"token">>) = <<"x">>

(* C10: a run that reached the actions of a path whose list holds a type     *)
(* that is not registered ends Aborted with the error that names the first   *)
(* such type; only the actions before it have run, the Installer was not     *)
(* invoked, and the target directory is as it was when the run began.        *)
UnknownAt(actions) == {i \in 1..Len(actions) : actions[i].type \notin RegisteredActions}

FirstUnknown(actions) ==
    CHOOSE i \in UnknownAt(actions) : \A j \in UnknownAt(actions) : i <= j

C10_UnknownActionAborts ==
    (Ended /\ flow.collected /\ UnknownAt(SelectedPath.actions) # {})
    => /\ flow.pc = "Aborted"
       /\ flow.error = "UnknownAction"
       /\ flow.named = SelectedPath.actions[FirstUnknown(SelectedPath.actions)].type
       /\ Len(flow.ran) < FirstUnknown(SelectedPath.actions)
       /\ flow.installs = 0
       /\ Current = flow.start

TypesOf(actions) == [i \in 1..Len(actions) |-> actions[i].type]

IsPrefix(a, b) == Len(a) <= Len(b) /\ SubSeq(b, 1, Len(a)) = a

\* the run ended inside the loop over the actions, at the action flow.act
EndedAtAction ==
    /\ Ended /\ flow.collected
    /\ flow.act <= Len(SelectedPath.actions)
    /\ flow.error # "UnsupportedTarget"

(* C11: the actions that ran are the declared ones in declared order, each   *)
(* once; the Installer is invoked only after all of them ran; and a run that *)
(* ended at a registered action executed it and ended Aborted only because   *)
(* that action failed, with no later action run and no install.              *)
C11_ActionsInDeclaredOrder ==
    flow.collected
    => /\ IsPrefix(flow.ran, TypesOf(SelectedPath.actions))
       /\ (flow.pc \in {"Installing", "Done"} \/ flow.installs > 0)
          => flow.ran = TypesOf(SelectedPath.actions)
       /\ (EndedAtAction /\ SelectedPath.actions[flow.act].type \in RegisteredActions)
          => /\ Len(flow.ran) = flow.act
             /\ flow.installs = 0
             /\ flow.pc = "Aborted"
                => flow.result = "false" /\ flow.error \in {"ActionFailed", "Exception"}

(* C12: a registered action whose spec carries exactly its declared          *)
(* attributes is constructed and executed: a run never ends with a           *)
(* construction error at such an action.                                     *)
C12_RegisteredActionConstructed ==
    (EndedAtAction
        /\ SelectedPath.actions[flow.act].type \in RegisteredActions
        /\ SelectedPath.actions[flow.act].attrs
              = ActionParams(SelectedPath.actions[flow.act].type))
    => /\ flow.error # "TypeError"
       /\ flow.ran = SubSeq(TypesOf(SelectedPath.actions), 1, flow.act)

\* the operator answered and confirmed, every action succeeded, install did
\* not raise
NothingWentWrong ==
    flow.error \notin {"Cancelled", "Declined", "ActionFailed", "Exception",
                       "InstallFailed", "UnsupportedTarget"}

(* C13: a run on a FULL or DEFAULT path with registered actions in which     *)
(* nothing went wrong ends Done with true, has passed PresentingChoice,      *)
(* CollectingParameters, ExecutingActions, Installing in that order, and     *)
(* the hook set is installed.                                                *)
C13_FlowReachesDone ==
    (Ended /\ flow.choice > 0 /\ flow.pc # "Exited"
        /\ SelectedPath.path_type \in {"full", "default"}
        /\ UnknownAt(SelectedPath.actions) = {}
        /\ NothingWentWrong)
    => /\ flow.pc = "Done" /\ flow.result = "true"
       /\ flow.trail = <<"PresentingChoice", "CollectingParameters",
                         "ExecutingActions", "Installing", "Done">>
       /\ flow.cfg.hook_name \in DOMAIN SetsOf(metadata)

(* C14: the flow invokes the Installer at most once, only on a path that is  *)
(* not EXIT and after every action of the path ran with success, and never   *)
(* when the operator declined; the install gets the hook set and exactly the *)
(* collected parameters; a flow that did not invoke it (an EXIT path, a      *)
(* refusal, an abort) leaves both stores as they were; an install that       *)
(* raised ends the flow Aborted.                                             *)
C14_InstallOnlyAfterActions ==
    /\ flow.installs <= 1
    /\ flow.installs = 0
       => /\ settings = flow.start.settings /\ metadata = flow.start.metadata
          /\ hist = <<>>
    /\ flow.error = "Declined" => flow.installs = 0 /\ ~flow.cfg.force
    /\ flow.installs = 1
       => /\ SelectedPath.path_type # "exit"
          /\ flow.collected
          /\ flow.ran = TypesOf(SelectedPath.actions)
          /\ \/ /\ flow.pc = "Done" /\ flow.result = "true"
                /\ LastIs("install", "ok")
                /\ Last.name = flow.cfg.hook_name
                /\ Last.inputs = flow.inputs
             \/ /\ flow.pc = "Aborted" /\ flow.result = "false"
                /\ flow.error = "InstallFailed"
                /\ Ops > 0 => /\ Last.result # "ok"
                              /\ Last.inputs = flow.inputs
    /\ (flow.choice > 0 /\ SelectedPath.path_type = "exit") => flow.installs = 0

\* the Installer was invoked with prompted and defaulted parameters and
\* installed the hook set
C14_Witness ==
    /\ flow.installs = 1
    /\ flow.pc = "Done"
    /\ flow.asked # <<>>
    /\ Len(flow.inputs) > Len(flow.asked)
    /\ flow.cfg.hook_name \in DOMAIN SetsOf(metadata)

(* C15: a run that came to an exit-with-message action, wherever it is in    *)
(* the list, ended the process there with status 0: the action ran, nothing  *)
(* ran after it, the Installer was not invoked and the outcome is not the    *)
(* Aborted one.                                                              *)
C15_ExitWithMessageEndsProcess ==
    (EndedAtAction /\ SelectedPath.actions[flow.act].type = "exit_with_message")
    => /\ flow.pc = "Exited"
       /\ exit_status(flow.result) = 0
       /\ Len(flow.ran) = flow.act
       /\ flow.installs = 0

Presets == Prefill("observability_viz", "docker_deploy")

DeclaredNames == {flow.cfg.inputs[i].name : i \in 1..Len(flow.cfg.inputs)}

AskedNames == {flow.asked[i] : i \in 1..Len(flow.asked)}

(* C16: once the parameters of the Docker-deployment path of the             *)
(* visualization hook set are collected, each of the four pre-set            *)
(* connection parameters that was not prompted for has its pre-set value,    *)
(* whether or not an input of that name declares a default.                  *)
C16_PresetsOverrideDefaults ==
    (flow.collected /\ flow.cfg.hook_name = "observability_viz"
        /\ SelectedPath.name = "docker_deploy")
    => \A i \in 1..Len(Presets) :
          Presets[i][1] \notin AskedNames
          => /\ HasVar(flow.inputs, Presets[i][1])
             /\ VarValue(flow.inputs, Presets[i][1]) = Presets[i][2]

TerminalStates == {"Done", "Aborted"}

Failures ==
    {"NoPaths", "UnknownAction", "TypeError", "ActionFailed", "Exception",
     "Declined", "InstallFailed", "UnsupportedTarget", "Cancelled"}

(* C19: a run that returned is in exactly one terminal state, entered once,  *)
(* and reports true exactly for Done and false exactly for Aborted; no       *)
(* configured path, an exception while constructing or executing an action   *)
(* or while installing, and a keyboard interrupt all end Aborted with false. *)
C19_BooleanOutcome ==
    /\ flow.pc = "Done" <=> flow.result = "true"
    /\ flow.pc = "Aborted" <=> flow.result = "false"
    /\ flow.pc \notin TerminalStates \cup {"Exited"} <=> flow.result = "running"
    /\ flow.error \in Failures <=> flow.pc = "Aborted"
    /\ flow.pc \in TerminalStates
       => /\ flow.trail[Len(flow.trail)] = flow.pc
          /\ \A i \in 1..(Len(flow.trail) - 1) : flow.trail[i] \notin TerminalStates

\* the Installer raised on a damaged settings.json and run() returned False
C19_Witness ==
    /\ flow.pc = "Aborted"
    /\ flow.error = "InstallFailed"
    /\ LastIs("install", "ParseError")

(* C20: a keyboard interrupt at a prompt ends the flow Aborted and the       *)
(* command does not report a failure: its exit status is 0.                  *)
C20_CancellationNotFailure ==
    flow.error = "Cancelled"
    => /\ flow.pc = "Aborted"
       /\ exit_status(flow.result) = 0

----------------------------------------------------------------------------
(* Library calls taken one at a time: TemplateProcessor.process_string,      *)
(* CheckDockerAction.execute, and (below) the construction of the path       *)
(* configurations                                                            *)

ProjectName == <<"project_name">>

\* a run of characters without braces or blanks is one symbol
TextSymbols == {"{", "}", " ", "project_name", "x"}

HelloText == <<"Hello ", "{", "project_name", "}", "!">>

EngineText == <<"{", "{", " ", "project_name", " ", "}", "}">>

TemplateTexts ==
    UNION {[1..n -> TextSymbols] : n \in 0..MaxTextLen} \cup {HelloText, EngineText}

Demo == << <<ProjectName, <<"demo">>>> >>

\* the value of project_name holds the placeholder of the variable x
Nested == << <<ProjectName, <<"{", "x", "}">>>>, << <<"x">>, <<"demo">> >> >>

NestedReversed == << Nested[2], Nested[1] >>

TemplateVariables ==
    {<<>>, Demo, << <<ProjectName, <<"{", "{">>>> >>, Nested, NestedReversed}

InitTemplate ==
    \E content \in TemplateTexts, variables \in TemplateVariables :
        unit = [pc |-> "process_string", content |-> content, variables |-> variables]

\* templates.py lines 20-28
Render ==
    /\ unit.pc = "process_string"
    /\ unit' = [pc |-> "rendered", content |-> unit.content,
                variables |-> unit.variables,
                result |-> process_string(unit.content, unit.variables)]
    /\ UNCHANGED <<settings, metadata, fs, hist, flow, procs, home>>

InitProbe == unit = [pc |-> "check_docker"]

\* actions.py lines 149-166: docker --version is run and its outcome judged
Probe(env) ==
    /\ unit.pc = "check_docker"
    /\ env \in ProbeOutcomes
    /\ unit' = [pc |-> "probed", probe |-> env, result |-> execute("check_docker", env)]
    /\ UNCHANGED <<settings, metadata, fs, hist, flow, procs, home>>

\* an action of a path as config.yaml gives it: a dict with the key type and
\* the keys of the action's attributes
RawAction(action_type) ==
    [keys |-> {"type"} \cup ActionParams(action_type), type |-> action_type]

RawPath(name, path_type, actions) ==
    [name |-> name, label |-> name, type |-> path_type, actions |-> actions]

\* variant: any value is taken as a path type
InstallationPath_lenient(value) == [ok |-> TRUE, value |-> value]

\* InstallationPath(value): ValueError unless value is one of the enum's
InstallationPath(value) ==
    IF value \in PathTypes THEN [ok |-> TRUE, value |-> value]
    ELSE [ok |-> FALSE, value |-> "none"]

\* paths.py lines 36-39: pop the type of each action dict, build PathActions;
\* a dict without the key type raises KeyError and ends the loop
RECURSIVE parse_actions(_, _, _)
parse_actions(actions_data, i, actions) ==
    IF i > Len(actions_data)
    THEN [ok |-> TRUE, actions |-> actions, data |-> actions_data]
    ELSE IF "type" \notin actions_data[i].keys
    THEN [ok |-> FALSE, actions |-> actions, data |-> actions_data]
    ELSE parse_actions(
             [actions_data EXCEPT ![i].keys = @ \ {"type"}], i + 1,
             Append(actions, [type  |-> actions_data[i].type,
                              attrs |-> actions_data[i].keys \ {"type"}]))

\* PathConfig.from_dict: the PathConfig, and the dict as the call leaves it
from_dict(data) ==
    LET parsed == parse_actions(data.actions, 1, <<>>)
        after  == [data EXCEPT !.actions = parsed.data]
        kind   == InstallationPath(data.type)
    IN  IF ~parsed.ok THEN [ok |-> FALSE, error |-> "KeyError", data |-> after]
        ELSE IF ~kind.ok THEN [ok |-> FALSE, error |-> "ValueError", data |-> after]
        ELSE [ok |-> TRUE, error |-> "none", data |-> after,
              config |-> Path(data.name, kind.value, parsed.actions)]

\* InteractiveInstaller._parse_paths: from_dict of each path in declaration
\* order; the first exception leaves the constructor
RECURSIVE parse_paths(_, _, _)
parse_paths(paths_config, i, paths) ==
    IF i > Len(paths_config)
    THEN [ok |-> TRUE, error |-> "none", paths |-> paths, data |-> paths_config]
    ELSE LET r == from_dict(paths_config[i])
             after == [paths_config EXCEPT ![i] = r.data]
         IN  IF ~r.ok
             THEN [ok |-> FALSE, error |-> r.error, paths |-> <<>>, data |-> after]
             ELSE parse_paths(after, i + 1, Append(paths, r.config))

RawActionLists ==
    UNION {[1..n -> {RawAction(t) : t \in {"show_message", "check_docker", "bogus"}}] :
               n \in 0..MaxActions}

RawPaths(name) ==
    {RawPath(name, t, a) : t \in PathTypes \cup {"custom"}, a \in RawActionLists}

\* interactive_install.paths of a hook set definition, as loaded
RawDefinitions ==
    {<<p>> : p \in RawPaths("docker_deploy")}
    \cup {<<p, q>> : p \in RawPaths("docker_deploy"), q \in RawPaths("manual")}

InitDefinition ==
    \E d \in RawDefinitions :
        unit = [pc |-> "definition", loaded |-> d, definition |-> d, built |-> <<>>]

\* InteractiveInstaller(hook_config=definition, ...): lines 41-43
Construct ==
    /\ unit.pc = "definition"
    /\ Len(unit.built) < 2
    /\ LET r == parse_paths(unit.definition, 1, <<>>)
       IN  unit' = [unit EXCEPT
                       !.definition = r.data,
                       !.built = Append(@, [ok |-> r.ok, error |-> r.error,
                                            paths |-> r.paths])]
    /\ UNCHANGED <<settings, metadata, fs, hist, flow, procs, home>>

\* the three event-sending scripts, by the hook set that ships them
HookScripts == {"observability_log", "observability_viz", "observability_agentlog"}

\* what the host tool may write to the script's stdin: a JSON object, an
\* object whose transcript_path is not a string, text that is not JSON,
\* and JSON values that are not objects
StdinContents ==
    {"object", "object_transcript_not_a_path", "malformed",
     "array", "string", "number", "null"}

NonObjects == {"array", "string", "number", "null"}

\* the write succeeds, the write fails, the backend or the directory of the
\* log file cannot be reached
BackendOutcomes == {"ok", "write_fails", "unavailable"}

\* main() of a script: the exit status of the process and whether the event
\* was written.  An exception that no handler catches ends the process
\* with status 1.
main(script, stdin, add_chat, backend) ==
    IF script = "observability_log" /\ backend = "unavailable"
    THEN [status |-> 1, sent |-> FALSE]       \* mkdir in FileEventLogger()
    ELSE IF stdin = "malformed"
    THEN [status |-> 0, sent |-> FALSE]       \* except json.JSONDecodeError
    ELSE IF stdin \in NonObjects
    THEN [status |-> 1, sent |-> FALSE]       \* input_data.get: AttributeError
    ELSE IF add_chat /\ stdin = "object_transcript_not_a_path"
    THEN [status |-> 1, sent |-> FALSE]       \* os.path.exists: TypeError
    ELSE [status |-> 0, sent |-> backend = "ok"]

InitHook ==
    \E script \in HookScripts, stdin \in StdinContents, add_chat \in BOOLEAN :
        unit = [pc |-> "hook", script |-> script, stdin |-> stdin, add_chat |-> add_chat]

\* one run of the script by the host tool
RunHook(backend) ==
    /\ unit.pc = "hook"
    /\ backend \in BackendOutcomes
    /\ unit' = [pc |-> "exited", script |-> unit.script, stdin |-> unit.stdin,
                add_chat |-> unit.add_chat, backend |-> backend,
                status |-> main(unit.script, unit.stdin, unit.add_chat, backend).status,
                sent |-> main(unit.script, unit.stdin, unit.add_chat, backend).sent]
    /\ UNCHANGED <<settings, metadata, fs, hist, flow, procs, home>>

InitUnit ==
    /\ settings = AbsentSettings
    /\ metadata = AbsentMetadata
    /\ fs = NoTarget
    /\ hist = <<>>
    /\ flow = IdleFlow
    /\ procs = NoProcs
    /\ home = NoHome
    /\ \/ InitTemplate
       \/ InitProbe
       \/ InitDefinition
       \/ InitHook

NextUnit ==
    \/ Render
    \/ \E env \in ProbeOutcomes : Probe(env)
    \/ Construct
    \/ \E backend \in BackendOutcomes : RunHook(backend)

SpecUnit == InitUnit /\ [][NextUnit]_vars

----------------------------------------------------------------------------
(* Properties of the library calls *)

(* C21: constructing the path configurations leaves the loaded definition    *)
(* as it was, and a second construction from the same definition gives what  *)
(* the first one gave.                                                       *)
C21_DefinitionImmutable ==
    (unit.pc = "definition" /\ unit.built # <<>>)
    => /\ unit.definition = unit.loaded
       /\ Len(unit.built) = 2 => unit.built[2] = unit.built[1]

(* C23: process_string returns what the engine renders from the text in      *)
(* which every {name} of a supplied variable was replaced first; with        *)
(* project_name = demo, 'Hello {project_name}!' gives 'Hello demo!',         *)
(* '{{ project_name }}' gives 'demo', and '{{project_name}}' gives '{demo}'  *)
(* because the inner {project_name} is replaced before the engine runs.      *)
C23_TwoPassesInOrder ==
    unit.pc = "rendered"
    => /\ unit.result =
             jinja_render(literal_pass(unit.content, unit.variables), unit.variables)
       /\ unit.variables = Demo
          => /\ unit.content = HelloText
                => unit.result = [ok |-> TRUE, out |-> <<"Hello ", "demo", "!">>]
             /\ unit.content = EngineText
                => unit.result = [ok |-> TRUE, out |-> <<"demo">>]
             /\ unit.content = <<"{", "{", "project_name", "}", "}">>
                => unit.result = [ok |-> TRUE, out |-> <<"{", "demo", "}">>]

C23_Witness ==
    /\ unit.pc = "rendered"
    /\ unit.variables = Demo
    /\ unit.content = HelloText
    /\ unit.result.ok

(* C24: a construction succeeds exactly when every path type of the          *)
(* definition is full, default or exit; every path configuration that        *)
(* exists has one of these types, and a failed construction yields no path   *)
(* configuration at all.                                                     *)
C24_UnknownPathTypeFails ==
    (unit.pc = "definition" /\ unit.built # <<>>)
    => LET first == unit.built[1]
           known == \A i \in 1..Len(unit.loaded) : unit.loaded[i].type \in PathTypes
       IN  /\ first.ok <=> known
           /\ ~known => first.error = "ValueError"
           /\ \A k \in 1..Len(unit.built) :
                 /\ \A i \in 1..Len(unit.built[k].paths) :
                       unit.built[k].paths[i].path_type \in PathTypes
                 /\ ~unit.built[k].ok => unit.built[k].paths = <<>>

\* the second path has an unknown type, after a first one that was built
C24_Witness ==
    /\ unit.pc = "definition" /\ unit.built # <<>>
    /\ Len(unit.loaded) = 2
    /\ unit.loaded[1].type = "full" /\ unit.loaded[2].type = "custom"
    /\ ~unit.built[1].ok /\ unit.built[1].paths = <<>>

(* C30: whenever the probe for docker does not confirm that the binary is    *)
(* there and working (non-zero exit, binary not found, another error), the   *)
(* action reports failure.                                                   *)
C30_ProbeFailureIsFatal ==
    unit.pc = "probed"
    => (unit.result = "true" <=> unit.probe = "zero")

----------------------------------------------------------------------------
(* C22: the answer k of 1..N selects the k-th declared path; an answer       *)
(* outside 1..N selects nothing and is asked again; the flow goes on to      *)
(* parameter collection only with a selection in 1..N (the other ways out    *)
(* of the prompt are the operator's cancellation and a definition without    *)
(* paths, which both abort without a path).                                  *)
C22_ChoiceSelectsDeclaredPath ==
    LET n == Len(flow.cfg.paths) IN
    (flow.pc # "idle")
    => /\ flow.choice \in 0..n
       /\ flow.choice > 0
          => /\ flow.selected = flow.cfg.paths[flow.choice].name
             /\ Len(flow.trail) >= 2 /\ flow.trail[2] = "CollectingParameters"
       /\ flow.choice = 0
          => /\ flow.selected = "none"
             /\ flow.pc \in {"PresentingChoice", "Aborted"}
             /\ ~flow.collected /\ flow.ran = <<>> /\ flow.installs = 0
             /\ flow.pc = "Aborted" => flow.error \in {"Cancelled", "NoPaths"}
       /\ (flow.pc = "PresentingChoice" /\ flow.reprompts > 0)
          => flow.choice = 0 /\ flow.trail = <<"PresentingChoice">>

\* the second path was selected after an answer that was refused
C22_Witness ==
    /\ flow.pc # "idle"
    /\ flow.reprompts > 0
    /\ flow.choice = 2 /\ flow.selected = "manual"
    /\ flow.collected

----------------------------------------------------------------------------
(* Files written and removed by the installer *)

FilesOf(name) == HookSetConfig(name).files

TargetPath(name, i) == HooksDir \o FilesOf(name)[i].rel

ValueOfP(inputs) == inputs[1][2]

(* C27: after a successful install of S every file of S's hooks subtree is   *)
(* at the same relative path below the target's hooks directory, a .py file  *)
(* rendered with the inputs and any other file with the content it has in    *)
(* the hook set; S's record lists exactly these paths, each once, in the     *)
(* order written, with the inputs used and the name, version and             *)
(* description of the hook set.                                              *)
C27_InstallWritesAndRecordsFiles ==
    LastIs("install", "ok")
    => LET S      == Last.name
           n      == Len(FilesOf(S))
           record == SetsOf(metadata)[S]
       IN  /\ \A i \in 1..n :
                 /\ TargetPath(S, i) \in DOMAIN fs.files
                 /\ Ancestors(TargetPath(S, i)) \subseteq fs.dirs
                 /\ fs.files[TargetPath(S, i)] =
                       IF IsPython(FilesOf(S)[i].rel)
                       THEN process_string(FilesOf(S)[i].content, Last.inputs).out
                       ELSE FilesOf(S)[i].content
           /\ S = "setA"
              => /\ fs.files[<<"hooks", "send.py">>] = <<"A">> \o ValueOfP(Last.inputs)
                 /\ fs.files[<<"hooks", "lib", "util.txt">>] = <<"{", "p", "}">>
           /\ record.installed_files = [i \in 1..n |-> TargetPath(S, i)]
           /\ \A i, j \in 1..n :
                 record.installed_files[i] = record.installed_files[j] => i = j
           /\ record.inputs = Last.inputs
           /\ record.config = [name |-> S, version |-> HookSetConfig(S).version,
                               description |-> HookSetConfig(S).description]
           /\ \A f \in DOMAIN Last.pre.fs.files :
                 f \notin {TargetPath(S, i) : i \in 1..n}
                 => f \in DOMAIN fs.files /\ fs.files[f] = Last.pre.fs.files[f]

\* setA installed over the send.py that setB had written
C27_Witness ==
    /\ LastIs("install", "ok") /\ Last.name = "setA"
    /\ <<"hooks", "send.py">> \in DOMAIN Last.pre.fs.files
    /\ Last.pre.fs.files[<<"hooks", "send.py">>][1] = "B"
    /\ fs.files[<<"hooks", "send.py">>][1] = "A"

(* C29: after a successful uninstall no empty directory is left beneath the  *)
(* target's hooks directory, also when a directory became empty only because *)
(* its empty subdirectories were removed.                                    *)
C29_NoEmptyDirectoryLeft ==
    LastIs("uninstall", "ok")
    => \A d \in fs.dirs : IsUnder(d, HooksDir) => HasChildren(fs, d)

----------------------------------------------------------------------------
(* HookInstaller(target, install_type) used on the working directory and on *)
(* the home directory                                                        *)

MaxCliOps == 2

CliNames == {"setA", "setD", "broken"}

Targets == {"claude", "cursor"}

InstallTypes == {"local", "global"}

GoodInputs == << <<KeyP, <<"x">>>> >>

\* a value that leaves an unclosed {{ in every text that names {p}
BadInputs == << <<KeyP, <<"{", "{">>>> >>

CliInputs == {GoodInputs, BadInputs}

InstalledA ==
    install_hook_set(Target(AbsentSettings, AbsentMetadata, NoTarget), "setA", GoodInputs)

\* setA installed; the operator deleted one of its files afterwards
FileMissing ==
    Target(InstalledA.settings, InstalledA.metadata,
           [InstalledA.fs EXCEPT
               !.files = Restrict(@, DOMAIN @ \ {<<"hooks", "send.py">>})])

CliTargets ==
    { Target(AbsentSettings, AbsentMetadata, NoTarget),
      Target(MalformedSettings, AbsentMetadata, BareTarget),
      Target(AbsentSettings, MalformedMetadata, BareTarget),
      FileMissing }

InitCli ==
    /\ \E t \in CliTargets :
          /\ settings = t.settings
          /\ metadata = t.metadata
          /\ fs = t.fs
    /\ home = NoHome
    /\ hist = <<>>
    /\ flow = IdleFlow
    /\ procs = NoProcs
    /\ unit = NoUnit

\* the directory get_target_directory resolved to, as the call found it
Resolved(where) == IF where.dir = "home" THEN home ELSE Current

Store(where, out) ==
    IF where.dir = "home"
    THEN /\ home' = Target(out.settings, out.metadata, out.fs)
         /\ UNCHANGED <<settings, metadata, fs>>
    ELSE /\ Apply(out)
         /\ UNCHANGED home

Call(op, name, inputs, target, install_type, result) ==
    [op |-> op, name |-> name, inputs |-> inputs, result |-> result,
     target |-> target, install_type |-> install_type,
     pre |-> Current, prehome |-> home]

\* HookInstaller(target, install_type).install_hook_set(...)
InstallAt(hook_set_name, inputs, target, install_type) ==
    /\ Len(hist) < MaxCliOps
    /\ LET where == get_target_directory(target, install_type)
           out   == IF where.ok
                    THEN install_hook_set(Resolved(where), hook_set_name, inputs)
                    ELSE Outcome(Resolved(where), "UnsupportedTarget")
       IN  /\ Store(where, out)
           /\ hist' = Append(hist, Call("install", hook_set_name, inputs, target,
                                        install_type, out.result))
    /\ UNCHANGED <<flow, procs, unit>>

\* HookInstaller(target, install_type).uninstall_hook_set(name)
UninstallAt(hook_set_name, target, install_type) ==
    /\ Len(hist) < MaxCliOps
    /\ LET where == get_target_directory(target, install_type)
           out   == IF where.ok
                    THEN uninstall_hook_set(Resolved(where), hook_set_name)
                    ELSE Outcome(Resolved(where), "UnsupportedTarget")
       IN  /\ Store(where, out)
           /\ hist' = Append(hist, Call("uninstall", hook_set_name, <<>>, target,
                                        install_type, out.result))
    /\ UNCHANGED <<flow, procs, unit>>

NextCli ==
    \/ \E n \in CliNames, i \in CliInputs, t \in Targets, it \in InstallTypes :
          InstallAt(n, i, t, it)
    \/ \E n \in CliNames, t \in Targets, it \in InstallTypes : UninstallAt(n, t, it)

SpecCli == InitCli /\ [][NextCli]_vars

----------------------------------------------------------------------------
(* Properties of the calls on either directory *)

\* the directory the last call worked on, before and after it
Before == IF Last.install_type = "global" THEN Last.prehome ELSE Last.pre

After == IF Last.install_type = "global" THEN home ELSE Current

ElsewhereUntouched ==
    IF Last.install_type = "global" THEN Current = Last.pre ELSE home = Last.prehome

NothingTouched == Current = Last.pre /\ home = Last.prehome

(* C25: the directory depends on (target, install type) only: for claude    *)
(* it is the home-scoped directory when the install type is global and the  *)
(* working directory otherwise; every other target fails with               *)
(* Unsupported-target, and an install or uninstall for it creates, writes   *)
(* and deletes nothing.                                                      *)
C25_TargetResolution ==
    Ops > 0
    => /\ Last.target # "claude"
          => Last.result = "UnsupportedTarget" /\ NothingTouched
       /\ Last.target = "claude"
          => /\ Last.result # "UnsupportedTarget"
             /\ ElsewhereUntouched
             /\ Last.op = "install"
                => /\ After.fs.dirs # {}
                   /\ After = Target(install_hook_set(Before, Last.name, Last.inputs).settings,
                                     install_hook_set(Before, Last.name, Last.inputs).metadata,
                                     install_hook_set(Before, Last.name, Last.inputs).fs)

\* an install for another target, on a directory that holds an installed set
C25_Witness ==
    /\ LastIs("install", "UnsupportedTarget")
    /\ Last.target = "cursor"
    /\ Ops = 2 /\ hist[1].result = "ok" /\ hist[1].install_type = "global"
    /\ home.metadata.exists

PathsOf(name) == {TargetPath(name, i) : i \in 1..Len(FilesOf(name))}

(* C26: when an install fails, the Settings Store and the Metadata Store of *)
(* the directory are exactly as before the call; of the files, only those   *)
(* of the hook set that were copied before the failure may be new or        *)
(* changed.                                                                  *)
C26_FailedInstallKeepsStores ==
    (Ops > 0 /\ Last.op = "install" /\ Last.result # "ok")
    => /\ settings = Last.pre.settings /\ metadata = Last.pre.metadata
       /\ home.settings = Last.prehome.settings
       /\ home.metadata = Last.prehome.metadata
       /\ ElsewhereUntouched
       /\ \A f \in DOMAIN Before.fs.files :
             f \notin PathsOf(Last.name)
             => f \in DOMAIN After.fs.files /\ After.fs.files[f] = Before.fs.files[f]
       /\ \A f \in DOMAIN After.fs.files :
             f \in DOMAIN Before.fs.files \/ f \in PathsOf(Last.name)
       /\ Last.result \in {"UnsupportedTarget", "ConfigError", "TemplateError",
                           "ParseError", "KeyError"}

\* the entry template failed after both files of setD were copied, in a
\* directory whose stores held setA
C26_Witness ==
    /\ LastIs("install", "TemplateError")
    /\ Last.name = "setD" /\ Last.install_type = "local" /\ Last.target = "claude"
    /\ Last.pre.settings.exists /\ Last.pre.metadata.exists
    /\ <<"hooks", "send.py">> \in DOMAIN fs.files
    /\ fs.files[<<"hooks", "send.py">>] = <<"D">>
    /\ fs.files # Last.pre.fs.files

RecordedFiles ==
    LET listed == SetsOf(Before.metadata)[Last.name].installed_files
    IN  {listed[i] : i \in 1..Len(listed)}

(* C28: after a successful uninstall of S none of the files listed in S's   *)
(* record exists in the directory and S is recorded no more; the uninstall  *)
(* succeeds whenever its checks pass, whether or not the listed files are   *)
(* still there.                                                              *)
C28_UninstallRemovesListedFiles ==
    (Ops > 0 /\ Last.op = "uninstall")
    => /\ Last.result = "ok"
          => /\ \A f \in RecordedFiles : f \notin DOMAIN After.fs.files
             /\ Last.name \notin DOMAIN SetsOf(After.metadata)
             /\ \A T \in DOMAIN HooksOf(After.settings) :
                   HooksOf(After.settings)[T] # <<>>
       /\ (Last.target = "claude" /\ uninstall_error(Before, Last.name) = "ok")
          => Last.result = "ok"

\* one listed file was there, the other one was missing already
C28_Witness ==
    /\ LastIs("uninstall", "ok")
    /\ \E f \in RecordedFiles : f \notin DOMAIN Before.fs.files
    /\ \E f \in RecordedFiles : f \in DOMAIN Before.fs.files

----------------------------------------------------------------------------
(* Properties of sequences of installs and uninstalls *)

EmptyTarget == Target(AbsentSettings, AbsentMetadata, NoTarget)

ListedBy(file, S) ==
    {SetsOf(file)[S].installed_files[i] :
        i \in 1..Len(SetsOf(file)[S].installed_files)}

(* C32: from an empty target, after any sequence of installs and uninstalls *)
(* every file listed by a recorded hook set exists; an uninstall does not   *)
(* delete a file that another recorded hook set lists.                       *)
C32_SharedFileKept ==
    Start = EmptyTarget
    => \A S \in DOMAIN SetsOf(metadata) :
          \A f \in ListedBy(metadata, S) : f \in DOMAIN fs.files

(* C33: from an empty target, when a sequence of installs and uninstalls    *)
(* ends with no hook set recorded, the Settings Store file and the Metadata *)
(* Store file are both absent.                                               *)
C33_AllUninstalledLeavesNothing ==
    (Start = EmptyTarget /\ LastIs("uninstall", "ok") /\ DOMAIN SetsOf(metadata) = {})
    => ~settings.exists /\ ~metadata.exists

References(T, i) ==
    {S \in DOMAIN SetsOf(metadata) :
        /\ T \in DOMAIN SetsOf(metadata)[S].hook_entries
        /\ SetsOf(metadata)[S].hook_entries[T] = i - 1}

(* C34: from an empty target, in every state reached by installs and        *)
(* uninstalls, every recorded index of every recorded hook set is within    *)
(* its event type's list and points at the entry that the hook set's        *)
(* install appended, and every entry of the Settings Store is referenced by *)
(* exactly one record.                                                       *)
C34_IndicesValid ==
    Start = EmptyTarget
    => /\ \A S \in DOMAIN SetsOf(metadata) :
             \A T \in DOMAIN SetsOf(metadata)[S].hook_entries :
                /\ T \in DOMAIN HooksOf(settings)
                /\ SetsOf(metadata)[S].hook_entries[T] < Len(HooksOf(settings)[T])
                /\ HooksOf(settings)[T][SetsOf(metadata)[S].hook_entries[T] + 1]
                      = Rendered(S, T, SetsOf(metadata)[S].inputs)
       /\ \A T \in DOMAIN HooksOf(settings) :
             \A i \in 1..Len(HooksOf(settings)[T]) :
                Cardinality(References(T, i)) = 1

(* C35: every top-level key of the Settings Store other than hooks that was *)
(* there before an install or uninstall is there with the same value        *)
(* afterwards.                                                               *)
C35_OtherKeysKept ==
    (Ops > 0 /\ Readable(Last.pre.settings))
    => \A k \in DOMAIN OtherOf(Last.pre.settings) :
          /\ k \in DOMAIN OtherOf(settings)
          /\ OtherOf(settings)[k] = OtherOf(Last.pre.settings)[k]

(* C37: a successful uninstall of S leaves the list of every event type     *)
(* that is not a key of S's hook_entries as it was, adds no event type, and *)
(* leaves the record of every other hook set as it was.                      *)
C37_UninstallTouchesOnlyItsOwn ==
    LastIs("uninstall", "ok")
    => LET rec == SetsOf(Last.pre.metadata)[Last.name]
           old == HooksOf(Last.pre.settings)
       IN  /\ \A T \in DOMAIN old \ DOMAIN rec.hook_entries :
                 /\ T \in DOMAIN HooksOf(settings)
                 /\ HooksOf(settings)[T] = old[T]
           /\ DOMAIN HooksOf(settings) \subseteq DOMAIN old
           /\ DOMAIN SetsOf(metadata) = DOMAIN SetsOf(Last.pre.metadata) \ {Last.name}
           /\ \A n \in DOMAIN SetsOf(metadata) :
                 SetsOf(metadata)[n] = SetsOf(Last.pre.metadata)[n]

\* the settings held an empty list of an event type that S does not name,
\* and another hook set was recorded
C37_Witness ==
    /\ LastIs("uninstall", "ok")
    /\ \E T \in DOMAIN HooksOf(Last.pre.settings) :
          /\ T \notin DOMAIN SetsOf(Last.pre.metadata)[Last.name].hook_entries
          /\ HooksOf(Last.pre.settings)[T] = <<>>
    /\ DOMAIN SetsOf(Last.pre.metadata)[Last.name].hook_entries # {}
    /\ DOMAIN SetsOf(metadata) # {}

(* C38: an uninstall that fails has deleted no file, removed no directory   *)
(* and rewritten no store; it fails exactly when the Metadata Store is      *)
(* absent, a store does not parse, or the name is not recorded.              *)
C38_ValidateBeforeMutate ==
    (Ops > 0 /\ Last.op = "uninstall")
    => /\ Last.result # "ok"
          => /\ Current = Last.pre
             /\ Last.result \in {"NotInstalled", "ParseError"}
       /\ Last.result = "ok"
          <=> /\ Last.pre.metadata.exists /\ Last.pre.metadata.valid
              /\ Readable(Last.pre.settings)
              /\ Last.pre.metadata.data.hasKey
              /\ Last.name \in DOMAIN Last.pre.metadata.data.sets

\* the name is recorded and its file is there, the Settings Store is damaged
C38_Witness ==
    /\ LastIs("uninstall", "ParseError")
    /\ ~Readable(Last.pre.settings)
    /\ Last.pre.metadata.valid
    /\ Last.name \in DOMAIN SetsOf(Last.pre.metadata)
    /\ \E f \in ListedBy(Last.pre.metadata, Last.name) : f \in DOMAIN fs.files

----------------------------------------------------------------------------
(* One install taken step by step, with writes that may fail *)

InitPersist ==
    /\ \E t \in InitialTargets :
          /\ settings = t.settings
          /\ metadata = t.metadata
          /\ fs = t.fs
    /\ hist = <<>>
    /\ flow = IdleFlow
    /\ \E n \in HookSetNames, i \in InputChoices : procs = <<ProcStart(n, i)>>
    /\ home = NoHome
    /\ unit = NoUnit

\* open(file, 'w') raises OSError: nothing was written
FailOpen(p) ==
    /\ procs[p].pc \in {"open_settings", "open_metadata"}
    /\ procs' = Failed(p, "OSError")
    /\ hist' = Append(hist, Event(p, "fail_open"))
    /\ UNCHANGED <<settings, metadata, fs, flow, home, unit>>

\* json.dump raises OSError: the opened file stays as the write left it
FailDump(p) ==
    /\ procs[p].pc \in {"dump_settings", "dump_metadata"}
    /\ procs' = Failed(p, "OSError")
    /\ hist' = Append(hist, Event(p, "fail_dump"))
    /\ UNCHANGED <<settings, metadata, fs, flow, home, unit>>

NextPersist ==
    \/ CopyFiles(1)
    \/ LoadSettings(1)
    \/ LoadMetadata(1)
    \/ OpenSettings(1)
    \/ DumpSettings(1)
    \/ OpenMetadata(1)
    \/ DumpMetadata(1)
    \/ FailOpen(1)
    \/ FailDump(1)

SpecPersist == InitPersist /\ [][NextPersist]_vars

Returned == procs # NoProcs /\ procs[1].pc \in {"done", "failed"}

\* the entries this install appended are in the Settings Store
EntriesWritten ==
    /\ settings.exists /\ settings.valid
    /\ procs[1].record # EmptyMap
    /\ HooksOf(settings) = procs[1].hooks

\* the record that describes them is in the Metadata Store
RecordWritten ==
    /\ metadata.exists /\ metadata.valid
    /\ procs[1].name \in DOMAIN SetsOf(metadata)
    /\ SetsOf(metadata)[procs[1].name] = procs[1].record

(* C36: in every state in which the install has returned or failed, the     *)
(* Settings Store holds the entries appended for S exactly when the         *)
(* Metadata Store holds S's record that describes them.                     *)
C36_StoresAllOrNothing ==
    (Returned /\ DeclaredTypes(procs[1].name) # {})
    => (EntriesWritten <=> RecordWritten)

----------------------------------------------------------------------------
(* Literal placeholders *)

NoEngineSyntax(content) ==
    \A i \in 1..(Len(content) - 1) :
        ~(content[i] = "{" /\ content[i + 1] = "{")
        /\ ~(content[i] = "}" /\ content[i + 1] = "}")

PlaceholderAt(content, variables) ==
    {i \in 1..Len(variables) :
        /\ Len(content) >= 3
        /\ SubSeq(content, 1, 3) = Placeholder(variables[i][1])}

\* every {name} of a supplied variable replaced by its value, in one scan
\* of the template that does not look at the values again
RECURSIVE Verbatim(_, _)
Verbatim(content, variables) ==
    IF content = <<>> THEN <<>>
    ELSE IF PlaceholderAt(content, variables) # {}
    THEN variables[CHOOSE i \in PlaceholderAt(content, variables) : TRUE][2]
            \o Verbatim(SubSeq(content, 4, Len(content)), variables)
    ELSE <<Head(content)>> \o Verbatim(Tail(content), variables)

RECURSIVE Reversed(_)
Reversed(variables) ==
    IF variables = <<>> THEN <<>>
    ELSE Append(Reversed(Tail(variables)), Head(variables))

(* C39: for a template without engine syntax, process_string returns the    *)
(* template with each {name} replaced by the value as it is, whatever the   *)
(* order in which the variables are supplied: a value is not searched for   *)
(* placeholders of other variables and is not evaluated by the engine.      *)
C39_ValuesAreData ==
    (unit.pc = "rendered" /\ NoEngineSyntax(unit.content))
    => /\ unit.result = [ok |-> TRUE, out |-> Verbatim(unit.content, unit.variables)]
       /\ process_string(unit.content, Reversed(unit.variables)) = unit.result

----------------------------------------------------------------------------
(* Event-sending hook scripts *)

(* C31: a run of an event-sending script ends with exit status 0, whatever  *)
(* was on stdin (a JSON object, malformed JSON, JSON that is not an object) *)
(* and whatever the backend did (write succeeded, write failed, backend or  *)
(* log location unavailable).                                               *)
C31_HookAlwaysExitsZero ==
    unit.pc = "exited" => unit.status = 0

====
